---- MODULE Spec2Model ----
(***************************************************************************)
(* OBot decision service (linux_api.py, linux_safety.py).                  *)
(*                                                                         *)
(* State: the fields of bot_status that the decision path reads or writes, *)
(* the global cooldown_counter, the global safety_monitor object, the last *)
(* JSON answer of /predict, and the place and the locals of every thread.  *)
(*                                                                         *)
(* Threads.  app.run serves every request in a thread of its own and       *)
(* news_scheduler is a thread started in __main__; no handler takes a      *)
(* lock.  /predict, /update_status (with TradingSafetyMonitor.update),     *)
(* /command and news_scheduler are modelled statement by statement: one    *)
(* action for each read or write of shared state, so that any other thread *)
(* may run between two of them, and the clock may pass midnight between    *)
(* two of its reads.  /status, /fix and /restart make at most one access   *)
(* to the modelled state each and are one action.  No action waits for     *)
(* another thread; NThreads predict calls, NUpdaters account updates and   *)
(* one command are served at a time.                                       *)
(*                                                                         *)
(* A behaviour is one run of the process, from module load on.  `left`     *)
(* bounds the requests, commands and scheduler passes that start in it.    *)
(*                                                                         *)
(* Numbers.  minutes_until is a float in the code; here it is an integer   *)
(* number of ticks, TicksPerMinute ticks to the minute.  A risk multiplier *)
(* m is the integer m * RiskOne, which is exact for every value the code   *)
(* computes on a whole number of ticks.  Equity and PnL are integers.      *)
(***************************************************************************)
EXTENDS Integers, Sequences, FiniteSets, TLC

VARIABLES
    status,                 \* bot_status['status']
    model_loaded,           \* bot_status['model_loaded']
    news_lock,              \* bot_status['news_lock']
    news_message,           \* bot_status['news_message']
    news_risk_multiplier,   \* bot_status['news_risk_multiplier'] * RiskOne
    news_next_event,        \* bot_status['news_next_event']: << >> for None, else << event >>
    safety_enabled,         \* bot_status['safety_enabled']
    safety_halted,          \* bot_status['safety_halted']
    cooldown_counter,       \* global cooldown_counter
    safety_monitor,         \* global safety_monitor (None or a monitor object)
    safety_class,           \* TRUE iff the import of TradingSafetyMonitor succeeded
    today,                  \* datetime.now().date(), as a day number
    feed,                   \* what the event source answered to the last fetch
    response,               \* the JSON object the last /predict call returned
    ticks_since_close,      \* history: counted calls that ran the cooldown step since the last CLOSE
    calls_since_close,      \* history: counted predict calls since the last CLOSE
    pc,                     \* per request thread: its place in predict
    seen,                   \* per request thread: the counter value its test read
    reg,                    \* per request thread: the counter value its decrement loaded
    local,                  \* per request thread: the request and the multiplier it read
    start_counter,          \* history: the counter when the call (the calls) started
    overlapped,             \* history: a counted call arrived while another call was served
    cmd,                    \* the /command thread: its place in execute_command
    upd,                    \* per account-update thread: its place in update_status and
                            \* TradingSafetyMonitor.update, and its locals
    left,                   \* requests, commands and scheduler passes that may still start;
                            \* -1 when their number is not bounded
    sched,                  \* news_scheduler: its place and its locals
    sent,                   \* the news notifications handed to send_telegram_msg
    args,                   \* the arguments of the call in progress, or NoCall
    result                  \* what the call returned, or NoCall

vars == << status, model_loaded, news_lock, news_message, news_risk_multiplier,
           news_next_event, safety_enabled, safety_halted,
           cooldown_counter, safety_monitor, safety_class, today, feed, response,
           ticks_since_close, calls_since_close, pc, seen, reg, local, start_counter,
           overlapped, cmd, upd, left, sched, sent, args, result >>

botVars == << status, model_loaded, safety_enabled, safety_halted,
              cooldown_counter, safety_monitor, safety_class, today, response,
              ticks_since_close, calls_since_close >>

\* the news fields of bot_status
newsFields == << news_lock, news_message, news_risk_multiplier, news_next_event >>

newsVars == << news_lock, news_message, news_risk_multiplier, news_next_event, feed,
               sched, sent >>

requestVars == << pc, seen, reg, local, start_counter, overlapped >>

\* the threads that serve requests, without the bound on their number
workVars == << pc, seen, reg, local, start_counter, overlapped, cmd, upd >>

threadVars == << pc, seen, reg, local, start_counter, overlapped, cmd, upd, left >>

callVars == << args, result >>

\* no call in progress, nothing returned
NoCall == [fn |-> "none"]

-----------------------------------------------------------------------------
(* Bounds of the model *)

\* ticks to the minute: the resolution of minutes_until
TicksPerMinute == 2

\* longest event feed drawn for a fetch
MaxEvents == 2

\* requests, commands and scheduler passes that start in a behaviour of the
\* service
MaxOps == 4

\* the requests, commands, account updates and passes of news_scheduler of an
\* execution in which the calls are counted
MaxCounted == 3

\* predict calls that start in a behaviour of the specifications of /predict alone
MaxCalls == 2

\* last day number the clock reaches
MaxDay == 1

\* number of concurrent request threads
NThreads == 2

\* number of concurrent account-update threads
NUpdaters == 1

\* account updates one monitor receives in the specification of the safety monitor
MaxUpdates == 3

\* account updates beyond the 50th point of the curve in the specification of the
\* performance check
ExtraUpdates == 2

\* most bars of a higher-timeframe series drawn for an alignment
MaxBars == 3

\* last calendar day of the base bars drawn for the pivots
MaxPivotDay == 3

\* most rows of a feature table drawn for the cleaning
MaxRows == 2

\* notifications the scheduler is followed for
MaxSent == 4

-----------------------------------------------------------------------------
(* Program constants *)

LOCKDOWN_MINUTES_BEFORE == 30
LOCKDOWN_MINUTES_AFTER == 15
WARNING_MINUTES == 120

\* cooldown_counter = 12 after a CLOSE
COOLDOWN_BARS == 12

\* MIN_ATR = 1.0
MIN_ATR == 1

\* TradingSafetyMonitor(max_daily_loss_pct=5, max_drawdown_pct=15)
MAX_DAILY_LOSS_PCT == 5
MAX_DRAWDOWN_PCT == 15

\* the integer that stands for the multiplier 1.0
RiskOne == 9000 * TicksPerMinute

\* the request threads
Threads == 1 .. NThreads

\* the threads that serve /update_status
Updaters == 1 .. NUpdaters

\* one more request, command or scheduler pass starts
Spend ==
    /\ left # 0
    /\ left' = IF left > 0 THEN left - 1 ELSE left

Min(a, b) == IF a < b THEN a ELSE b
Max(a, b) == IF a > b THEN a ELSE b

-----------------------------------------------------------------------------
(* News filter: fetch_forexfactory_events, check_news_risk *)

\* titles of the modelled calendar
Titles == {"Core CPI m/m", "Unemployment Claims"}

GOLD_HIGH_IMPACT_EVENTS ==
    { "Non-Farm Employment Change", "Nonfarm Payrolls", "Federal Funds Rate",
      "FOMC Statement", "Consumer Price Index", "CPI m/m", "Core CPI m/m", "GDP",
      "Unemployment Rate", "Retail Sales m/m", "Fed Chair Powell Speaks",
      "ISM Manufacturing PMI" }

\* gold_event.lower() in event_title.lower(), for the titles of the modelled
\* calendar: 'Core CPI m/m' contains 'CPI m/m' and itself, 'Unemployment Claims'
\* contains no entry of the list
Contains(event_title, gold_event) ==
    << event_title, gold_event >> \in { << "Core CPI m/m", "CPI m/m" >>,
                                        << "Core CPI m/m", "Core CPI m/m" >> }

\* is_gold_specific without the list: no title is gold-specific
is_gold_specific_Never(event_title) == FALSE

\* any(gold_event.lower() in event_title.lower() for gold_event in GOLD_HIGH_IMPACT_EVENTS)
is_gold_specific(event_title) ==
    \E gold_event \in GOLD_HIGH_IMPACT_EVENTS : Contains(event_title, gold_event)

\* int(minutes_until): truncation towards zero of ticks / TicksPerMinute
IntMinutes(t) == IF t >= 0 THEN t \div TicksPerMinute ELSE -((-t) \div TicksPerMinute)

\* the filter of the fetch loop: USD only, High impact only, -1 hour to +24 hours
Qualifies(e) ==
    /\ e.country = "USD"
    /\ e.impact = "High"
    /\ -60 * TicksPerMinute <= e.minutes_until
    /\ e.minutes_until <= 1440 * TicksPerMinute

RECURSIVE FilterEvents(_)
FilterEvents(raw) ==
    IF raw = << >> THEN << >>
    ELSE IF Qualifies(Head(raw))
         THEN << [title |-> Head(raw).title, minutes_until |-> Head(raw).minutes_until] >>
              \o FilterEvents(Tail(raw))
         ELSE FilterEvents(Tail(raw))

\* e placed into the sorted list s after every element whose key is <= its key
RECURSIVE InsertSorted(_, _)
InsertSorted(e, s) ==
    IF s = << >> THEN << e >>
    ELSE IF Head(s).minutes_until <= e.minutes_until
         THEN << Head(s) >> \o InsertSorted(e, Tail(s))
         ELSE << e >> \o s

\* high_impact_events.sort(key=lambda x: x['minutes_until']), a stable sort
RECURSIVE SortByMinutes(_)
SortByMinutes(s) ==
    IF s = << >> THEN << >>
    ELSE InsertSorted(s[Len(s)], SortByMinutes(SubSeq(s, 1, Len(s) - 1)))

\* fetch_forexfactory_events(): (events, status) for what the source answered
fetch_forexfactory_events(f) ==
    IF f.http = "non200" THEN [events |-> << >>, status |-> "API Error"]
    ELSE IF f.http = "exception" THEN [events |-> << >>, status |-> "Error"]
    ELSE [events |-> SortByMinutes(FilterEvents(f.events)), status |-> "OK"]

\* WarningRisk without the division by the width of the warning zone and
\* without the clamp
WarningRisk_NoDivision(t) ==
    2700 * TicksPerMinute + 6300 * (t - LOCKDOWN_MINUTES_BEFORE * TicksPerMinute)

\* risk_mult of the warning zone, times RiskOne:
\* 0.3 + (minutes_until - 30) / (120 - 30) * 0.7, clamped to [0.3, 1.0]
WarningRisk(t) ==
    LET raw == 2700 * TicksPerMinute + 70 * (t - LOCKDOWN_MINUTES_BEFORE * TicksPerMinute)
    IN  Min(Max(raw, 2700 * TicksPerMinute), RiskOne)

\* The percentages k + 1/2, written 2k + 1, at which the double that lines 252-256
\* compute for the multiplier, times 100, lies below the half: 45.5 (a gold title
\* 75 minutes ahead), 54.5, 75.5 and 96.5 (another title 61.5, 88.5 and 115.5
\* minutes ahead).  At every other half the product is the half itself.
DoubleBelowHalf == {91, 109, 151, 193}

\* f"{risk_mult:.0%}": the double risk_mult * 100 formatted with no decimals.
\* Away from a half it is the nearest whole percentage; a product that is a
\* half goes to the even neighbour, a product just below a half goes down.
Percent(m) ==
    LET twice == (200 * m) \div RiskOne
        half == (200 * m) % RiskOne = 0 /\ twice % 2 = 1
        down == twice \div 2
    IN  IF ~half THEN (twice + 1) \div 2
        ELSE IF twice \in DoubleBelowHalf \/ down % 2 = 0 THEN down
        ELSE down + 1

\* RiskOfClosest with the lower end of the lock after the release exclusive
\* (minutes_until > -LOCKDOWN_MINUTES_AFTER)
RiskOfClosest_ExclusiveAfter(closest) ==
    LET minutes_until == closest.minutes_until
        event_title == closest.title
        shown == IntMinutes(minutes_until)
    IN  IF minutes_until < 0 /\ minutes_until > -LOCKDOWN_MINUTES_AFTER * TicksPerMinute
        THEN [locked |-> TRUE, risk_mult |-> 0,
              message |-> << "LOCKED", event_title, "Just released" >>,
              next_event |-> << closest >>]
        ELSE IF 0 <= minutes_until /\ minutes_until <= LOCKDOWN_MINUTES_BEFORE * TicksPerMinute
        THEN [locked |-> TRUE, risk_mult |-> 0,
              message |-> << "LOCKED", event_title, shown >>,
              next_event |-> << closest >>]
        ELSE IF LOCKDOWN_MINUTES_BEFORE * TicksPerMinute < minutes_until
                /\ minutes_until <= WARNING_MINUTES * TicksPerMinute
        THEN LET risk_mult == IF is_gold_specific(event_title)
                              THEN (WarningRisk(minutes_until) * 7) \div 10
                              ELSE WarningRisk(minutes_until)
             IN  [locked |-> FALSE, risk_mult |-> risk_mult,
                  message |-> << "WARNING", event_title, shown, Percent(risk_mult) >>,
                  next_event |-> << closest >>]
        ELSE [locked |-> FALSE, risk_mult |-> RiskOne,
              message |-> << "Next", event_title, shown >>,
              next_event |-> << closest >>]

\* the zone tests and results of check_news_risk for the closest event; a message
\* is the tuple of the parts its f-string is made of, next_event a list of at
\* most one event
RiskOfClosest(closest) ==
    LET minutes_until == closest.minutes_until
        event_title == closest.title
        shown == IntMinutes(minutes_until)
    IN  IF minutes_until < 0 /\ minutes_until >= -LOCKDOWN_MINUTES_AFTER * TicksPerMinute
        THEN [locked |-> TRUE, risk_mult |-> 0,
              message |-> << "LOCKED", event_title, "Just released" >>,
              next_event |-> << closest >>]
        ELSE IF 0 <= minutes_until /\ minutes_until <= LOCKDOWN_MINUTES_BEFORE * TicksPerMinute
        THEN [locked |-> TRUE, risk_mult |-> 0,
              message |-> << "LOCKED", event_title, shown >>,
              next_event |-> << closest >>]
        ELSE IF LOCKDOWN_MINUTES_BEFORE * TicksPerMinute < minutes_until
                /\ minutes_until <= WARNING_MINUTES * TicksPerMinute
        THEN LET risk_mult == IF is_gold_specific(event_title)
                              THEN (WarningRisk(minutes_until) * 7) \div 10
                              ELSE WarningRisk(minutes_until)
             IN  [locked |-> FALSE, risk_mult |-> risk_mult,
                  message |-> << "WARNING", event_title, shown, Percent(risk_mult) >>,
                  next_event |-> << closest >>]
        ELSE [locked |-> FALSE, risk_mult |-> RiskOne,
              message |-> << "Next", event_title, shown >>,
              next_event |-> << closest >>]

\* check_news_risk that keeps the lock closed when the fetch failed
check_news_risk_FailClosed(f) ==
    LET events == fetch_forexfactory_events(f).events
    IN  IF events = << >>
        THEN [locked |-> f.http # "ok", risk_mult |-> IF f.http # "ok" THEN 0 ELSE RiskOne,
              message |-> << "No high impact news today." >>,
              next_event |-> << >>]
        ELSE RiskOfClosest(events[1])

\* check_news_risk(): (lock, risk_multiplier, message, next_event)
check_news_risk(f) ==
    LET events == fetch_forexfactory_events(f).events
    IN  IF events = << >>
        THEN [locked |-> FALSE, risk_mult |-> RiskOne,
              message |-> << "No high impact news today." >>,
              next_event |-> << >>]
        ELSE RiskOfClosest(events[1])

-----------------------------------------------------------------------------
(* news_scheduler (lines 265-310), statement by statement.  Between two of   *)
(* its statements any request thread may run.                                *)

\* news_alert that sends NEWS LOCK on every locked pass
news_alert_EveryLock(locked, risk_mult, last_lock_state, last_multiplier) ==
    IF locked THEN << "NEWS LOCK" >>
    ELSE IF ~locked /\ last_lock_state THEN << "NEWS CLEAR" >>
    ELSE IF 10 * risk_mult < 7 * RiskOne /\ 10 * last_multiplier >= 7 * RiskOne
    THEN << "NEWS WARNING" >>
    ELSE << >>

\* lines 296-301: the notification of a pass, if any
news_alert(locked, risk_mult, last_lock_state, last_multiplier) ==
    IF locked /\ ~last_lock_state THEN << "NEWS LOCK" >>
    ELSE IF ~locked /\ last_lock_state THEN << "NEWS CLEAR" >>
    ELSE IF 10 * risk_mult < 7 * RiskOne /\ 10 * last_multiplier >= 7 * RiskOne
    THEN << "NEWS WARNING" >>
    ELSE << >>

\* lines 269-270: the thread before its first pass, last_lock_state = False and
\* last_multiplier = 1.0; locked, risk_mult, message and next_event are the
\* locals line 275 assigns
SchedStart ==
    [line |-> 275, locked |-> FALSE, risk_mult |-> RiskOne, message |-> << >>,
     next_event |-> << >>, last_lock_state |-> FALSE, last_multiplier |-> RiskOne]

\* line 275: locked, risk_mult, msg, next_event = check_news_risk(), for an
\* answer of the event source drawn from feeds
SchedCheck(feeds) ==
    /\ sched.line = 275
    /\ \E f \in feeds :
          LET r == check_news_risk(f)
          IN  /\ feed' = f
              /\ sched' = [sched EXCEPT !.line = 277, !.locked = r.locked,
                                        !.risk_mult = r.risk_mult, !.message = r.message,
                                        !.next_event = r.next_event]
    /\ Spend
    /\ UNCHANGED newsFields
    /\ UNCHANGED sent
    /\ UNCHANGED botVars
    /\ UNCHANGED workVars
    /\ UNCHANGED callVars

\* lines 275, 306-308: check_news_risk() raises: the message alone is written,
\* and the locals of the loop keep their values
SchedulerRaise ==
    /\ sched.line = 275
    /\ news_message' = << "Error", "exception" >>
    /\ Spend
    /\ UNCHANGED << news_lock, news_risk_multiplier, news_next_event, feed, sched, sent >>
    /\ UNCHANGED botVars
    /\ UNCHANGED workVars
    /\ UNCHANGED callVars

\* line 277: bot_status['news_lock'] = locked
WriteLock ==
    /\ sched.line = 277
    /\ news_lock' = sched.locked
    /\ sched' = [sched EXCEPT !.line = 278]
    /\ UNCHANGED << news_message, news_risk_multiplier, news_next_event, feed, sent >>
    /\ UNCHANGED botVars
    /\ UNCHANGED threadVars
    /\ UNCHANGED callVars

\* line 278: bot_status['news_message'] = msg
WriteMessage ==
    /\ sched.line = 278
    /\ news_message' = sched.message
    /\ sched' = [sched EXCEPT !.line = 279]
    /\ UNCHANGED << news_lock, news_risk_multiplier, news_next_event, feed, sent >>
    /\ UNCHANGED botVars
    /\ UNCHANGED threadVars
    /\ UNCHANGED callVars

\* line 279: bot_status['news_risk_multiplier'] = risk_mult
WriteMultiplier ==
    /\ sched.line = 279
    /\ news_risk_multiplier' = sched.risk_mult
    /\ sched' = [sched EXCEPT !.line = 280]
    /\ UNCHANGED << news_lock, news_message, news_next_event, feed, sent >>
    /\ UNCHANGED botVars
    /\ UNCHANGED threadVars
    /\ UNCHANGED callVars

\* lines 280-283: bot_status['news_next_event'] = {...} if next_event else None,
\* the last write of the pass
WriteNextEvent ==
    /\ sched.line = 280
    /\ news_next_event' = IF sched.next_event = << >> THEN << >>
                          ELSE << [title |-> sched.next_event[1].title,
                                   minutes |-> IntMinutes(sched.next_event[1].minutes_until)] >>
    /\ sched' = [sched EXCEPT !.line = 296]
    /\ UNCHANGED << news_lock, news_message, news_risk_multiplier, feed, sent >>
    /\ UNCHANGED botVars
    /\ UNCHANGED threadVars
    /\ UNCHANGED callVars

\* lines 285-304, 310: the notification of the pass, last_lock_state = locked and
\* last_multiplier = risk_mult, and the sleep before the next pass; the
\* notifications are kept in `sent` when they are recorded, MaxSent of them at
\* most
Notify(recorded) ==
    /\ sched.line = 296
    /\ LET alert == news_alert(sched.locked, sched.risk_mult, sched.last_lock_state,
                               sched.last_multiplier)
       IN  IF recorded
           THEN /\ Len(sent) + Len(alert) <= MaxSent
                /\ sent' = sent \o alert
           ELSE UNCHANGED sent
    /\ sched' = [SchedStart EXCEPT !.last_lock_state = sched.locked,
                                   !.last_multiplier = sched.risk_mult]
    /\ UNCHANGED << news_lock, news_message, news_risk_multiplier, news_next_event, feed >>
    /\ UNCHANGED botVars
    /\ UNCHANGED threadVars
    /\ UNCHANGED callVars

\* a step of news_scheduler
Refresh(feeds, recorded) ==
    \/ SchedCheck(feeds)
    \/ WriteLock
    \/ WriteMessage
    \/ WriteMultiplier
    \/ WriteNextEvent
    \/ Notify(recorded)

\* no pass of news_scheduler is under way
SchedIdle == sched.line = 275

-----------------------------------------------------------------------------
(* TradingSafetyMonitor (linux_safety.py) *)

\* TradingSafetyMonitor(max_daily_loss_pct=5, max_drawdown_pct=15) after __init__;
\* an equity_curve entry is its equity, a trade_log entry its day and pnl,
\* an alert its type
NewMonitor ==
    [exists |-> TRUE,
     max_daily_loss_pct |-> MAX_DAILY_LOSS_PCT,
     max_drawdown_pct |-> MAX_DRAWDOWN_PCT,
     trade_log |-> << >>,
     equity_curve |-> << >>,
     trading_enabled |-> TRUE,
     alerts |-> << >>]

\* TradingSafetyMonitor(max_daily_loss_pct, max_drawdown_pct) after __init__
TradingSafetyMonitor(max_daily_loss_pct, max_drawdown_pct) ==
    [exists |-> TRUE,
     max_daily_loss_pct |-> max_daily_loss_pct,
     max_drawdown_pct |-> max_drawdown_pct,
     trade_log |-> << >>,
     equity_curve |-> << >>,
     trading_enabled |-> TRUE,
     alerts |-> << >>]

\* safety_monitor = None
NoMonitor == [exists |-> FALSE]

\* the truth value of `safety_monitor` in `if safety_monitor`
HasMonitor(m) == m.exists

RECURSIVE SumPnl(_)
SumPnl(log) == IF log = << >> THEN 0 ELSE Head(log).pnl + SumPnl(Tail(log))

RECURSIVE SeqMax(_)
SeqMax(s) == IF Len(s) = 1 THEN s[1] ELSE Max(s[1], SeqMax(Tail(s)))

\* TodayTrades without the date test: the trades of every day
TodayTrades_AllDays(log, day) == log

\* [t for t in self.trade_log if t['timestamp'].date() == today]
TodayTrades(log, day) == SelectSeq(log, LAMBDA t : t.day = day)

\* _check_daily_loss that sets trading_enabled to the outcome of the test, and so
\* enables trading again once today's loss is back above the limit
check_daily_loss_Recovers(m, day) ==
    LET today_trades == TodayTrades(m.trade_log, day)
        daily_pnl == SumPnl(today_trades)
        initial_balance == IF m.equity_curve # << >> THEN m.equity_curve[1] ELSE 1000
    IN  IF today_trades = << >> THEN [m EXCEPT !.trading_enabled = TRUE]
        ELSE IF daily_pnl * 100 < -m.max_daily_loss_pct * initial_balance
             THEN [m EXCEPT !.trading_enabled = FALSE,
                            !.alerts = Append(@, "DAILY_LOSS_LIMIT")]
             ELSE [m EXCEPT !.trading_enabled = TRUE]

\* _check_daily_loss: (daily_pnl / initial_balance) * 100 < -max_daily_loss_pct,
\* with initial_balance = equity_curve[0] > 0
check_daily_loss(m, day) ==
    LET today_trades == TodayTrades(m.trade_log, day)
        daily_pnl == SumPnl(today_trades)
        initial_balance == IF m.equity_curve # << >> THEN m.equity_curve[1] ELSE 1000
    IN  IF today_trades = << >> THEN m
        ELSE IF daily_pnl * 100 < -m.max_daily_loss_pct * initial_balance
             THEN [m EXCEPT !.trading_enabled = FALSE,
                            !.alerts = Append(@, "DAILY_LOSS_LIMIT")]
             ELSE m

\* _check_drawdown with the limit itself halting (<= instead of <)
check_drawdown_AtLimit(m) ==
    IF Len(m.equity_curve) < 2 THEN m
    ELSE LET current == m.equity_curve[Len(m.equity_curve)]
             running_max == SeqMax(m.equity_curve)
         IN  IF (current - running_max) * 100 <= -m.max_drawdown_pct * running_max
             THEN [m EXCEPT !.trading_enabled = FALSE,
                            !.alerts = Append(@, "MAX_DRAWDOWN")]
             ELSE m

\* _check_drawdown: (equity - running_max) / running_max * 100 < -max_drawdown_pct
\* for the last point of the curve, running_max the maximum of the whole curve
check_drawdown(m) ==
    IF Len(m.equity_curve) < 2 THEN m
    ELSE LET current == m.equity_curve[Len(m.equity_curve)]
             running_max == SeqMax(m.equity_curve)
         IN  IF (current - running_max) * 100 < -m.max_drawdown_pct * running_max
             THEN [m EXCEPT !.trading_enabled = FALSE,
                            !.alerts = Append(@, "MAX_DRAWDOWN")]
             ELSE m

\* _check_performance_degradation without the test previous_avg > 0
check_performance_degradation_AnySign(m) ==
    IF Len(m.trade_log) < 50 THEN m
    ELSE LET n == Len(m.trade_log)
             recent_20 == SumPnl(SubSeq(m.trade_log, n - 19, n))
             previous_30 == SumPnl(SubSeq(m.trade_log, n - 49, n - 20))
         IN  IF 3 * recent_20 < previous_30
             THEN [m EXCEPT !.alerts = Append(@, "PERFORMANCE_DEGRADATION")]
             ELSE m

\* _check_performance_degradation: with 50 trades or more,
\* previous_avg > 0 and recent_avg < previous_avg * 0.5, for the means of the
\* last 20 trades and of the 30 before them (3 * sum20 < sum30)
check_performance_degradation(m) ==
    IF Len(m.trade_log) < 50 THEN m
    ELSE LET n == Len(m.trade_log)
             recent_20 == SumPnl(SubSeq(m.trade_log, n - 19, n))
             previous_30 == SumPnl(SubSeq(m.trade_log, n - 49, n - 20))
         IN  IF previous_30 > 0 /\ 3 * recent_20 < previous_30
             THEN [m EXCEPT !.alerts = Append(@, "PERFORMANCE_DEGRADATION")]
             ELSE m

\* update, lines 25-28: self.equity_curve.append({...})
append_equity(m, current_equity) ==
    [m EXCEPT !.equity_curve = Append(@, current_equity)]

\* append_trade that does not log a trade whose pnl is that of the last logged trade
append_trade_Dedup(m, trade_pnl, day) ==
    IF trade_pnl # 0 /\ (m.trade_log = << >> \/ m.trade_log[Len(m.trade_log)].pnl # trade_pnl)
    THEN [m EXCEPT !.trade_log = Append(@, [day |-> day, pnl |-> trade_pnl])]
    ELSE m

\* update, lines 30-34: if trade_pnl is not None: self.trade_log.append({...}),
\* stamped with the day the clock shows; trade_pnl 0 stands for trade_pnl=None
\* (update_status never passes a zero pnl)
append_trade(m, trade_pnl, day) ==
    IF trade_pnl # 0
    THEN [m EXCEPT !.trade_log = Append(@, [day |-> day, pnl |-> trade_pnl])]
    ELSE m

\* TradingSafetyMonitor.update(current_equity, trade_pnl) run from its first
\* statement to its last on day `day`, with no other thread in between
update(m, current_equity, trade_pnl, day) ==
    check_performance_degradation(
        check_drawdown(
            check_daily_loss(append_trade(append_equity(m, current_equity), trade_pnl, day),
                             day)))

\* TradingSafetyMonitor.can_trade()
can_trade(m) == m.trading_enabled

-----------------------------------------------------------------------------
(* /predict (linux_api.py) *)

\* What a request body and the collaborators of one call amount to:
\*   body     "empty" when request.get_json gives nothing, else "ok"
\*   m5_data  "empty", "malformed" (an exception is raised in lines 400-438,
\*            before the features: a bar without 'time' or 'close' ...), or "ok"
\*   feat     "empty" when compute_regime_enhanced_features returns no row
\*   account  "malformed" when an exception is raised in lines 445-474, after
\*            the features (a non-numeric balance, spread or position price:
\*            float() raises at line 445, 446 or 453), else "ok"
\*   close    df_m5['close'].iloc[-1]
\*   atr_pct  last_row['atr_pct'], in units of 1/100000
\*   infer_ok FALSE when scaler.transform or ort_session.run raises
\*   infer    argmax(logits), the index into [HOLD, BUY, SELL, CLOSE]
Bodies == {"empty", "ok"}
M5Kinds == {"empty", "malformed", "ok"}
FeatKinds == {"empty", "ok"}
Accounts == {"ok", "malformed"}
Closes == {2000}
AtrPcts == {40, 125}
Infers == 0 .. 3

\* LowAtr that never finds the ATR below the floor
LowAtr_Never(close, atr_pct) == FALSE

\* line 488, 490: latest_atr_raw = curr_price * latest_atr_pct;
\* if latest_atr_raw < MIN_ATR
LowAtr(close, atr_pct) == close * atr_pct < MIN_ATR * 100000

\* every request, field by field
RawRequests ==
    [body : Bodies, m5_data : M5Kinds, feat : FeatKinds, account : Accounts,
     close : Closes, atr_pct : AtrPcts, infer_ok : BOOLEAN, infer : Infers]

\* the call on r returns before line 445, so that its account values are not
\* read
StopsBeforeAccount(r) == r.body = "empty" \/ r.m5_data # "ok" \/ r.feat = "empty"

\* the call on r returns before the cooldown step of line 477
StopsBeforeCooldown(r) == StopsBeforeAccount(r) \/ r.account = "malformed"

\* one request for each way through the handler: a field that the handler
\* does not reach has its first value, but for the logits of a request below the
\* ATR floor, which may be those of CLOSE, and for the ATR of a request whose
\* features are computed before an exception of lines 445-474
Requests ==
    { r \in RawRequests :
        /\ (r.body = "empty" => r.m5_data = "ok")
        /\ (r.body = "empty" \/ r.m5_data # "ok" => r.feat = "ok")
        /\ (StopsBeforeAccount(r) => r.account = "ok")
        /\ (StopsBeforeAccount(r) => r.atr_pct = 125)
        /\ (StopsBeforeCooldown(r) \/ LowAtr(r.close, r.atr_pct) => r.infer_ok)
        /\ (StopsBeforeCooldown(r) \/ ~r.infer_ok => r.infer = 0)
        /\ (LowAtr(r.close, r.atr_pct) => r.infer \in {0, 3}) }

ACTION_NAMES == << "HOLD", "BUY", "SELL", "CLOSE" >>

\* Hold answering the action alone
Hold_NoReason(reason) == [action |-> "HOLD"]

\* jsonify({"action": "HOLD", "reason": reason})
Hold(reason) == [action |-> "HOLD", reason |-> reason]

\* lines 395-475: what stops the call between the gates and the cooldown step
InputStop(r) ==
    IF r.body = "empty" THEN "BAD_JSON"
    ELSE IF r.m5_data = "empty" THEN "NO_DATA"
    ELSE IF r.m5_data = "malformed" THEN "ERROR"
    ELSE IF r.feat = "empty" THEN "FEAT_ERROR"
    ELSE IF r.account = "malformed" THEN "ERROR"
    ELSE "PASS"

\* PostProcess starting the cooldown on every action but HOLD
PostProcess_AnyTrade(action, c) == IF action # "HOLD" THEN COOLDOWN_BARS ELSE c

\* lines 511-512: if action == "CLOSE": cooldown_counter = 12
PostProcess(action, c) == IF action = "CLOSE" THEN COOLDOWN_BARS ELSE c

\* history counters are -1 until the first CLOSE and saturate at COOLDOWN_BARS
Bump(n) == IF n = -1 THEN -1 ELSE Min(n + 1, COOLDOWN_BARS)

-----------------------------------------------------------------------------
(* /predict, statement by statement.  pc[t] is the line thread t stands      *)
(* before, "idle" when it serves no call; a step is one read or write of     *)
(* shared state together with the local computation that leads to it, or a   *)
(* local computation that ends in a return.                                  *)

\* no request body read yet
NoRequest == [body |-> "none"]

\* feature_vector reading the cooldown counter
feature_vector_ReadsCooldown(r) ==
    [feat |-> r.feat, atr_pct |-> r.atr_pct + cooldown_counter]

\* line 441: compute_regime_enhanced_features(df_m5, df_h1=df_h1, df_h4=df_h4,
\* df_d1=df_d1, df_usd=df_usd): every argument is a frame built from the request
\* body in lines 400-438, and features.py keeps no state between calls; of the
\* table it returns the handler uses whether it is empty (line 442) and the
\* atr_pct of its last row (line 487)
feature_vector(r) == [feat |-> r.feat, atr_pct |-> r.atr_pct]

\* the locals of a thread that serves no call: the request, df_feat (none before
\* line 441 has run), and the value of bot_status['news_risk_multiplier'] read
\* for the answer
NoLocals == [r |-> NoRequest, df_feat |-> << >>, mult |-> -1]

\* the locals of a call on request r that stands at the cooldown step
LocalsAtCooldown(r) == [r |-> r, df_feat |-> << feature_vector(r) >>, mult |-> -1]

\* lines 547-550: except Exception as e: the answer to every exception raised in
\* the try block of the handler
ExceptionAnswer == Hold("ERROR") @@ [error |-> "exception"]

\* return jsonify(resp): the call of thread t is answered
Return(t, resp) ==
    /\ response' = resp
    /\ pc' = [pc EXCEPT ![t] = "idle"]
    /\ seen' = [seen EXCEPT ![t] = -1]
    /\ reg' = [reg EXCEPT ![t] = -1]
    /\ local' = [local EXCEPT ![t] = NoLocals]

\* the call of thread t goes on at `line`
Goto(t, line) ==
    /\ pc' = [pc EXCEPT ![t] = line]
    /\ UNCHANGED response

\* what no statement of predict writes
PredictFrame ==
    /\ UNCHANGED << status, model_loaded, safety_enabled, safety_monitor, safety_class,
                    today, cmd, upd, left >>
    /\ UNCHANGED newsVars

\* line 377: a request reaches predict in thread t
Arrive(t, counted) ==
    /\ pc[t] = "idle"
    /\ Spend
    /\ Goto(t, "382")
    /\ calls_since_close' = IF counted THEN Bump(calls_since_close) ELSE calls_since_close
    /\ start_counter' = IF counted THEN cooldown_counter ELSE start_counter
    /\ overlapped' = IF counted
                     THEN overlapped \/ \E u \in Threads \ {t} : pc[u] # "idle"
                     ELSE overlapped
    /\ UNCHANGED << seen, reg, local >>
    /\ UNCHANGED << safety_halted, cooldown_counter, ticks_since_close >>
    /\ UNCHANGED << status, model_loaded, safety_enabled, safety_monitor, safety_class,
                    today, cmd, upd >>
    /\ UNCHANGED newsVars

\* ReadStatus that takes every run-status for RUNNING
ReadStatus_NoTest(t) ==
    /\ pc[t] = "382"
    /\ Goto(t, "384")
    /\ UNCHANGED << seen, reg, local, start_counter, overlapped >>
    /\ UNCHANGED << safety_halted, cooldown_counter, ticks_since_close, calls_since_close >>
    /\ PredictFrame

\* lines 382-383: if bot_status["status"] != "RUNNING": return STOPPED
ReadStatus(t) ==
    /\ pc[t] = "382"
    /\ IF status # "RUNNING"
       THEN Return(t, Hold("STOPPED"))
       ELSE Goto(t, "384") /\ UNCHANGED << seen, reg, local >>
    /\ UNCHANGED << start_counter, overlapped >>
    /\ UNCHANGED << safety_halted, cooldown_counter, ticks_since_close, calls_since_close >>
    /\ PredictFrame

\* line 384: if bot_status["news_lock"]
ReadNewsLock(t) ==
    /\ pc[t] = "384"
    /\ Goto(t, IF news_lock THEN "385" ELSE "386")
    /\ UNCHANGED << seen, reg, local, start_counter, overlapped >>
    /\ UNCHANGED << safety_halted, cooldown_counter, ticks_since_close, calls_since_close >>
    /\ PredictFrame

\* line 385: return jsonify({"action": "HOLD", "reason": "NEWS_FILTER",
\* "message": bot_status["news_message"]})
ReadNewsMessage(t) ==
    /\ pc[t] = "385"
    /\ Return(t, Hold("NEWS_FILTER") @@ [message |-> news_message])
    /\ UNCHANGED << start_counter, overlapped >>
    /\ UNCHANGED << safety_halted, cooldown_counter, ticks_since_close, calls_since_close >>
    /\ PredictFrame

\* ReadModelLoaded that takes the model for loaded
ReadModelLoaded_NoTest(t) ==
    /\ pc[t] = "386"
    /\ Goto(t, "390")
    /\ UNCHANGED << seen, reg, local, start_counter, overlapped >>
    /\ UNCHANGED << safety_halted, cooldown_counter, ticks_since_close, calls_since_close >>
    /\ PredictFrame

\* lines 386-387: if not bot_status['model_loaded']: return MODEL_NOT_LOADED
ReadModelLoaded(t) ==
    /\ pc[t] = "386"
    /\ IF ~model_loaded
       THEN Return(t, Hold("MODEL_NOT_LOADED"))
       ELSE Goto(t, "390") /\ UNCHANGED << seen, reg, local >>
    /\ UNCHANGED << start_counter, overlapped >>
    /\ UNCHANGED << safety_halted, cooldown_counter, ticks_since_close, calls_since_close >>
    /\ PredictFrame

\* ReadSafetyMonitor that never finds the monitor halted
ReadSafetyMonitor_NoTest(t) ==
    /\ pc[t] = "390"
    /\ Goto(t, "396")
    /\ UNCHANGED << seen, reg, local, start_counter, overlapped >>
    /\ UNCHANGED << safety_halted, cooldown_counter, ticks_since_close, calls_since_close >>
    /\ PredictFrame

\* line 390: if safety_monitor and not safety_monitor.can_trade()
ReadSafetyMonitor(t) ==
    /\ pc[t] = "390"
    /\ Goto(t, IF HasMonitor(safety_monitor) /\ ~can_trade(safety_monitor)
               THEN "391" ELSE "396")
    /\ UNCHANGED << seen, reg, local, start_counter, overlapped >>
    /\ UNCHANGED << safety_halted, cooldown_counter, ticks_since_close, calls_since_close >>
    /\ PredictFrame

\* lines 391-393: bot_status["safety_halted"] = True; return SAFETY_HALT
WriteSafetyHalted(t) ==
    /\ pc[t] = "391"
    /\ safety_halted' = TRUE
    /\ Return(t, Hold("SAFETY_HALT") @@ [message |-> << "Risk limit exceeded" >>])
    /\ UNCHANGED << start_counter, overlapped >>
    /\ UNCHANGED << cooldown_counter, ticks_since_close, calls_since_close >>
    /\ PredictFrame

\* line 396: data = request.get_json(force=True, silent=True), for a request
\* drawn from requests
ReadBody(t, requests) ==
    /\ pc[t] = "396"
    /\ \E r \in requests : local' = [local EXCEPT ![t] = [NoLocals EXCEPT !.r = r]]
    /\ Goto(t, "397")
    /\ UNCHANGED << seen, reg, start_counter, overlapped >>
    /\ UNCHANGED << safety_halted, cooldown_counter, ticks_since_close, calls_since_close >>
    /\ PredictFrame

\* lines 397-438: if not req: BAD_JSON; if df_m5.empty: NO_DATA; the frames of
\* the bars are built, and an exception of these lines is answered at lines
\* 547-550
ParseBars(t) ==
    /\ pc[t] = "397"
    /\ LET r == local[t].r
       IN  IF r.body = "empty" THEN Return(t, Hold("BAD_JSON"))
           ELSE IF r.m5_data = "empty" THEN Return(t, Hold("NO_DATA"))
           ELSE IF r.m5_data = "malformed" THEN Return(t, ExceptionAnswer)
           ELSE Goto(t, "441") /\ UNCHANGED << seen, reg, local >>
    /\ UNCHANGED << start_counter, overlapped >>
    /\ UNCHANGED << safety_halted, cooldown_counter, ticks_since_close, calls_since_close >>
    /\ PredictFrame

\* line 441: df_feat = compute_regime_enhanced_features(df_m5, ...)
ComputeFeatures(t) ==
    /\ pc[t] = "441"
    /\ local' = [local EXCEPT ![t].df_feat = << feature_vector(local[t].r) >>]
    /\ Goto(t, "442")
    /\ UNCHANGED << seen, reg, start_counter, overlapped >>
    /\ UNCHANGED << safety_halted, cooldown_counter, ticks_since_close, calls_since_close >>
    /\ PredictFrame

\* lines 442-475: if df_feat.empty: FEAT_ERROR; then the balance, the spread
\* and the position are read from the request, and float() of a non-numeric
\* value raises (lines 445, 446, 453), answered at lines 547-550
ReadAccount(t) ==
    /\ pc[t] = "442"
    /\ IF local[t].df_feat[1].feat = "empty" THEN Return(t, Hold("FEAT_ERROR"))
       ELSE IF local[t].r.account = "malformed" THEN Return(t, ExceptionAnswer)
       ELSE Goto(t, "477") /\ UNCHANGED << seen, reg, local >>
    /\ UNCHANGED << start_counter, overlapped >>
    /\ UNCHANGED << safety_halted, cooldown_counter, ticks_since_close, calls_since_close >>
    /\ PredictFrame

\* lines 477-481: if cooldown_counter > 0: cooldown_val = 0.0 (and on to the
\* decrement) else: cooldown_val = 1.0
TestCounter(t, counted) ==
    /\ pc[t] = "477"
    /\ seen' = [seen EXCEPT ![t] = cooldown_counter]
    /\ Goto(t, IF cooldown_counter > 0 THEN "479" ELSE "484")
    /\ ticks_since_close' = IF counted /\ cooldown_counter <= 0
                            THEN Bump(ticks_since_close) ELSE ticks_since_close
    /\ UNCHANGED << reg, local, start_counter, overlapped >>
    /\ UNCHANGED << safety_halted, cooldown_counter, calls_since_close >>
    /\ PredictFrame

\* line 479, cooldown_counter -= 1: the load of the global
LoadCounter(t) ==
    /\ pc[t] = "479"
    /\ reg' = [reg EXCEPT ![t] = cooldown_counter]
    /\ Goto(t, "479 store")
    /\ UNCHANGED << seen, local, start_counter, overlapped >>
    /\ UNCHANGED << safety_halted, cooldown_counter, ticks_since_close, calls_since_close >>
    /\ PredictFrame

\* line 479, cooldown_counter -= 1: the store of the loaded value minus one
StoreCounter(t, counted) ==
    /\ pc[t] = "479 store"
    /\ cooldown_counter' = reg[t] - 1
    /\ reg' = [reg EXCEPT ![t] = -1]
    /\ Goto(t, "484")
    /\ ticks_since_close' = IF counted THEN Bump(ticks_since_close) ELSE ticks_since_close
    /\ UNCHANGED << seen, local, start_counter, overlapped >>
    /\ UNCHANGED << safety_halted, calls_since_close >>
    /\ PredictFrame

\* lines 477, 480: cooldown_val of thread t, 0 (Busy) when its test found the
\* counter above 0, else 1 (Ready)
cooldown_val(t) == IF seen[t] > 0 THEN 0 ELSE 1

\* lines 484-496: latest_atr_raw = curr_price * latest_atr_pct;
\* if latest_atr_raw < MIN_ATR: return LOW_ATR; else on to scaler.transform
CheckAtr(t) ==
    /\ pc[t] = "484"
    /\ LET r == local[t].r
           last_row == local[t].df_feat[1]
       IN  IF LowAtr(r.close, last_row.atr_pct)
           THEN Return(t, Hold("LOW_ATR") @@ [atr |-> r.close * last_row.atr_pct,
                                              atr_pct |-> last_row.atr_pct])
           ELSE Goto(t, "499") /\ UNCHANGED << seen, reg, local >>
    /\ UNCHANGED << start_counter, overlapped >>
    /\ UNCHANGED << safety_halted, cooldown_counter, ticks_since_close, calls_since_close >>
    /\ PredictFrame

\* lines 499-512: scaler.transform and ort_session.run come back, with an
\* exception (answered at lines 547-550) or with the logits;
\* if action == "CLOSE": cooldown_counter = 12
InferenceReturn(t, counted) ==
    /\ pc[t] = "499"
    /\ LET r == local[t].r
           action == ACTION_NAMES[r.infer + 1]
       IN  IF ~r.infer_ok
           THEN /\ Return(t, ExceptionAnswer)
                /\ UNCHANGED << cooldown_counter, ticks_since_close, calls_since_close >>
           ELSE /\ Goto(t, "537")
                /\ cooldown_counter' = PostProcess(action, cooldown_counter)
                /\ ticks_since_close' = IF action = "CLOSE" /\ counted
                                        THEN 0 ELSE ticks_since_close
                /\ calls_since_close' = IF action = "CLOSE" /\ counted
                                        THEN 0 ELSE calls_since_close
                /\ UNCHANGED << seen, reg, local >>
    /\ UNCHANGED << safety_halted, start_counter, overlapped >>
    /\ PredictFrame

\* line 537: "news_risk_multiplier": bot_status.get("news_risk_multiplier", 1.0)
ReadMultiplier(t) ==
    /\ pc[t] = "537"
    /\ local' = [local EXCEPT ![t].mult = news_risk_multiplier]
    /\ Goto(t, "543")
    /\ UNCHANGED << seen, reg, start_counter, overlapped >>
    /\ UNCHANGED << safety_halted, cooldown_counter, ticks_since_close, calls_since_close >>
    /\ PredictFrame

\* lines 532-545: "news_message": bot_status.get("news_message", ""), and the
\* answer of the policy is returned
ReadMessage(t) ==
    /\ pc[t] = "543"
    /\ LET r == local[t].r
       IN  Return(t, [action |-> ACTION_NAMES[r.infer + 1],
                      atr |-> r.close * local[t].df_feat[1].atr_pct,
                      reason |-> "MODEL", news_risk_multiplier |-> local[t].mult,
                      debug |-> [cooldown |-> cooldown_val(t),
                                 news_message |-> news_message]])
    /\ UNCHANGED << start_counter, overlapped >>
    /\ UNCHANGED << safety_halted, cooldown_counter, ticks_since_close, calls_since_close >>
    /\ PredictFrame

\* lines 382-393: the four pre-conditions
GateStep(t) ==
    \/ ReadStatus(t)
    \/ ReadNewsLock(t)
    \/ ReadNewsMessage(t)
    \/ ReadModelLoaded(t)
    \/ ReadSafetyMonitor(t)
    \/ WriteSafetyHalted(t)

\* lines 396-475: the request body, the bars and the features
InputStep(t, requests) ==
    \/ ReadBody(t, requests)
    \/ ParseBars(t)
    \/ ComputeFeatures(t)
    \/ ReadAccount(t)

\* lines 477-481: the cooldown step
CooldownStepOf(t, counted) ==
    \/ TestCounter(t, counted)
    \/ LoadCounter(t)
    \/ StoreCounter(t, counted)

\* lines 484-545: the ATR floor, the policy and its answer
PolicyStep(t, counted) ==
    \/ CheckAtr(t)
    \/ InferenceReturn(t, counted)
    \/ ReadMultiplier(t)
    \/ ReadMessage(t)

\* a step of thread t in predict
PredictStep(t, counted, requests) ==
    \/ Arrive(t, counted)
    \/ GateStep(t)
    \/ InputStep(t, requests)
    \/ CooldownStepOf(t, counted)
    \/ PolicyStep(t, counted)

\* a step of a /predict call in any thread, its request drawn from requests
PredictCall(counted, requests) ==
    \E t \in Threads :
        /\ PredictStep(t, counted, requests)
        /\ UNCHANGED callVars

-----------------------------------------------------------------------------
(* /update_status with TradingSafetyMonitor.update, statement by statement.   *)
(* upd[u].line is the line thread u stands before: a line of linux_safety.py  *)
(* inside update, "idle" when it serves no call.  The call works on the       *)
(* monitor object that was the global safety_monitor when it began; `own` is  *)
(* FALSE once START or RESET_SAFETY has put another object in its place.      *)

\* account updates: equity 0 stands for a missing or non-positive equity,
\* last_trade_pnl 0 for a missing or zero last_trade_pnl
Equities == {0, 84, 100}
Pnls == {0, -6}

\* the locals of a thread that serves no account update: the equity and the
\* last_trade_pnl of the body, and the alert the check under way has built
NoUpdate ==
    [line |-> "idle", equity |-> 0, pnl |-> 0, alert |-> << >>, own |-> TRUE]

\* update_status, lines 344-350, run from its first statement to its last: the
\* monitor after a call with the given equity and last_trade_pnl
monitor_after_update_status(m, equity, last_trade_pnl, day) ==
    IF HasMonitor(m) /\ equity > 0
    THEN update(m, equity, last_trade_pnl, day)
    ELSE m

\* what no statement of update_status writes
UpdateFrame ==
    /\ UNCHANGED << status, model_loaded, safety_enabled, safety_halted,
                    cooldown_counter, safety_class, today, response,
                    ticks_since_close, calls_since_close >>
    /\ UNCHANGED newsVars
    /\ UNCHANGED requestVars
    /\ UNCHANGED cmd

\* thread u goes on at `line`
UpdateGoto(u, line) == upd' = [upd EXCEPT ![u].line = line]

\* lines 337-347: a request reaches update_status in thread u, with equity and
\* last_trade_pnl drawn from the given sets; without a monitor or with
\* equity <= 0 the call writes nothing and returns
UpdateArrive(u, equities, pnls) ==
    /\ upd[u].line = "idle"
    /\ Spend
    /\ \E equity \in equities, last_trade_pnl \in pnls :
          upd' = [upd EXCEPT ![u] =
                     IF HasMonitor(safety_monitor) /\ equity > 0
                     THEN [NoUpdate EXCEPT !.line = "25", !.equity = equity,
                                           !.pnl = last_trade_pnl]
                     ELSE NoUpdate]
    /\ UNCHANGED safety_monitor
    /\ UpdateFrame

\* update, lines 25-28: the equity is appended to the curve
AppendEquity(u) ==
    /\ upd[u].line = "25"
    /\ upd[u].own
    /\ safety_monitor' = append_equity(safety_monitor, upd[u].equity)
    /\ UpdateGoto(u, "30")
    /\ UNCHANGED left
    /\ UpdateFrame

\* update, lines 30-34: the trade is appended to the log, with the day the clock
\* shows at this statement
AppendTrade(u) ==
    /\ upd[u].line = "30"
    /\ upd[u].own
    /\ safety_monitor' = append_trade(safety_monitor, upd[u].pnl, today)
    /\ UpdateGoto(u, "43")
    /\ UNCHANGED left
    /\ UpdateFrame

\* the locals of thread u after the test of a check that takes the monitor to
\* `after`: the alert it goes on to append, if the test found a breach
Decided(u, after, write, next) ==
    [upd EXCEPT ![u].line = IF after = safety_monitor THEN next ELSE write,
                ![u].alert = SubSeq(after.alerts, Len(safety_monitor.alerts) + 1,
                                    Len(after.alerts))]

\* _check_daily_loss, lines 43-57: the clock is read, today's trades are summed
\* and compared with the limit
TestDailyLoss(u) ==
    /\ upd[u].line = "43"
    /\ upd[u].own
    /\ upd' = Decided(u, check_daily_loss(safety_monitor, today), "58", "69")
    /\ UNCHANGED << safety_monitor, left >>
    /\ UpdateFrame

\* _check_drawdown, lines 69-77: the drawdown of the last point is compared with
\* the limit
TestDrawdown(u) ==
    /\ upd[u].line = "69"
    /\ upd[u].own
    /\ upd' = Decided(u, check_drawdown(safety_monitor), "78", "89")
    /\ UNCHANGED << safety_monitor, left >>
    /\ UpdateFrame

\* lines 58 and 78: self.trading_enabled = False
WriteTradingEnabled(u) ==
    /\ upd[u].line \in {"58", "78"}
    /\ upd[u].own
    /\ safety_monitor' = [safety_monitor EXCEPT !.trading_enabled = FALSE]
    /\ UpdateGoto(u, IF upd[u].line = "58" THEN "59" ELSE "79")
    /\ UNCHANGED left
    /\ UpdateFrame

\* _check_performance_degradation, lines 89-100: with 50 trades or more the mean
\* of the last 20 is compared with the mean of the 30 before them
TestDegradation(u) ==
    /\ upd[u].line = "89"
    /\ upd[u].own
    /\ upd' = Decided(u, check_performance_degradation(safety_monitor), "101", "353")
    /\ UNCHANGED << safety_monitor, left >>
    /\ UpdateFrame

\* lines 59-64, 79-84 and 101-106: self.alerts.append({...})
AppendAlert(u) ==
    /\ upd[u].line \in {"59", "79", "101"}
    /\ upd[u].own
    /\ safety_monitor' = [safety_monitor EXCEPT !.alerts = @ \o upd[u].alert]
    /\ UpdateGoto(u, CASE upd[u].line = "59" -> "69"
                       [] upd[u].line = "79" -> "89"
                       [] OTHER -> "353")
    /\ UNCHANGED left
    /\ UpdateFrame

\* update_status, lines 353-357: daily_pnl and current_drawdown of bot_status are
\* written and the call returns
UpdateReturn(u) ==
    /\ upd[u].line = "353"
    /\ upd' = [upd EXCEPT ![u] = NoUpdate]
    /\ UNCHANGED << safety_monitor, left >>
    /\ UpdateFrame

\* the rest of update runs on a monitor object that START or RESET_SAFETY has
\* replaced: nothing of the service is written
UpdateReplaced(u) ==
    /\ upd[u].line \notin {"idle", "353"}
    /\ ~upd[u].own
    /\ UpdateGoto(u, "353")
    /\ UNCHANGED << safety_monitor, left >>
    /\ UpdateFrame

\* a step of thread u in update_status
UpdateStep(u, equities, pnls) ==
    \/ UpdateArrive(u, equities, pnls)
    \/ AppendEquity(u)
    \/ AppendTrade(u)
    \/ TestDailyLoss(u)
    \/ TestDrawdown(u)
    \/ WriteTradingEnabled(u)
    \/ TestDegradation(u)
    \/ AppendAlert(u)
    \/ UpdateReturn(u)
    \/ UpdateReplaced(u)

\* a step of an /update_status call in any thread, its body drawn from the
\* given sets
UpdateStatusOn(equities, pnls) ==
    \E u \in Updaters :
        /\ UpdateStep(u, equities, pnls)
        /\ UNCHANGED callVars

UpdateStatus == UpdateStatusOn(Equities, Pnls)

-----------------------------------------------------------------------------
(* /command, /fix, /restart, the clock *)

\* what no statement of execute_command writes
CommandFrame ==
    /\ UNCHANGED << model_loaded, cooldown_counter, safety_class, today, response,
                    ticks_since_close, calls_since_close >>
    /\ UNCHANGED newsVars
    /\ UNCHANGED requestVars
    /\ UNCHANGED callVars

\* the account updates under way once the global safety_monitor is another object
Replaced ==
    [u \in Updaters |-> IF upd[u].line \in {"idle", "353"} THEN upd[u]
                        ELSE [upd[u] EXCEPT !.own = FALSE]]

\* StartMonitor that keeps a monitor that is already there
StartMonitor_KeepMonitor ==
    /\ cmd = "idle"
    /\ safety_class
    /\ Spend
    /\ safety_monitor' = IF HasMonitor(safety_monitor) THEN safety_monitor ELSE NewMonitor
    /\ upd' = Replaced
    /\ cmd' = "564"
    /\ UNCHANGED << status, safety_enabled, safety_halted >>
    /\ CommandFrame

\* execute_command, cmd == 'START', lines 559-563: if TradingSafetyMonitor:
\* safety_monitor = TradingSafetyMonitor(...)
StartMonitor ==
    /\ cmd = "idle"
    /\ safety_class
    /\ Spend
    /\ safety_monitor' = NewMonitor
    /\ upd' = Replaced
    /\ cmd' = "564"
    /\ UNCHANGED << status, safety_enabled, safety_halted >>
    /\ CommandFrame

\* line 564: bot_status['safety_enabled'] = True
StartEnabled ==
    /\ cmd = "564"
    /\ safety_enabled' = TRUE
    /\ cmd' = "565"
    /\ UNCHANGED << status, safety_monitor, safety_halted, upd, left >>
    /\ CommandFrame

\* line 565: bot_status['safety_halted'] = False
StartHalted ==
    /\ cmd = "565"
    /\ safety_halted' = FALSE
    /\ cmd' = "568"
    /\ UNCHANGED << status, safety_monitor, safety_enabled, upd, left >>
    /\ CommandFrame

\* line 568: bot_status['status'] = 'RUNNING', at once when the monitor class is
\* missing
StartStatus ==
    /\ \/ cmd = "568" /\ UNCHANGED left
       \/ cmd = "idle" /\ ~safety_class /\ Spend
    /\ status' = "RUNNING"
    /\ cmd' = "idle"
    /\ UNCHANGED << safety_monitor, safety_enabled, safety_halted, upd >>
    /\ CommandFrame

\* a step of execute_command, cmd == 'START': lines 557-570
Start ==
    \/ StartMonitor
    \/ StartEnabled
    \/ StartHalted
    \/ StartStatus

\* execute_command, cmd == 'STOP': lines 572-580 (save_report writes a file only)
Stop ==
    /\ cmd = "idle"
    /\ Spend
    /\ status' = "STOPPED"
    /\ UNCHANGED << safety_monitor, safety_enabled, safety_halted, cmd, upd >>
    /\ CommandFrame

\* ResetMonitor that enables the monitor in place and keeps what it accumulated
ResetMonitor_KeepState ==
    /\ cmd = "idle"
    /\ safety_class
    /\ Spend
    /\ safety_monitor' = IF HasMonitor(safety_monitor)
                         THEN [safety_monitor EXCEPT !.trading_enabled = TRUE]
                         ELSE NewMonitor
    /\ upd' = Replaced
    /\ cmd' = "589"
    /\ UNCHANGED << status, safety_enabled, safety_halted >>
    /\ CommandFrame

\* execute_command, cmd == 'RESET_SAFETY', lines 584-588: if TradingSafetyMonitor:
\* safety_monitor = TradingSafetyMonitor(...)
ResetMonitor ==
    /\ cmd = "idle"
    /\ safety_class
    /\ Spend
    /\ safety_monitor' = NewMonitor
    /\ upd' = Replaced
    /\ cmd' = "589"
    /\ UNCHANGED << status, safety_enabled, safety_halted >>
    /\ CommandFrame

\* line 589: bot_status['safety_halted'] = False
ResetHalted ==
    /\ cmd = "589"
    /\ safety_halted' = FALSE
    /\ cmd' = "idle"
    /\ UNCHANGED << status, safety_monitor, safety_enabled, upd, left >>
    /\ CommandFrame

\* line 592: without the monitor class the command answers FAIL and writes nothing
ResetFail ==
    /\ cmd = "idle"
    /\ ~safety_class
    /\ Spend
    /\ UNCHANGED << status, safety_monitor, safety_enabled, safety_halted, cmd, upd >>
    /\ CommandFrame

\* a step of execute_command, cmd == 'RESET_SAFETY': lines 582-592
ResetSafety ==
    \/ ResetMonitor
    \/ ResetHalted
    \/ ResetFail

\* fix_system: load_brain() runs when every download succeeded, and sets
\* model_loaded to whether the model and the scaler loaded
Fix ==
    /\ Spend
    /\ \E downloaded \in BOOLEAN, loaded \in BOOLEAN :
          model_loaded' = IF downloaded THEN loaded ELSE model_loaded
    /\ UNCHANGED << status, safety_enabled, safety_halted,
                    cooldown_counter, safety_monitor, safety_class, today, response,
                    ticks_since_close, calls_since_close >>
    /\ UNCHANGED newsVars
    /\ UNCHANGED workVars
    /\ UNCHANGED callVars

\* restart_service, lines 598-610: systemctl is asked to restart the three
\* services and the handler answers; it writes nothing of bot_status and no
\* global (a restart of obot_api.service ends the process)
RestartService ==
    /\ Spend
    /\ UNCHANGED botVars
    /\ UNCHANGED newsVars
    /\ UNCHANGED workVars
    /\ UNCHANGED callVars

\* midnight: datetime.now().date() moves to the next day
Midnight ==
    /\ today < MaxDay
    /\ today' = today + 1
    /\ UNCHANGED << status, model_loaded, safety_enabled, safety_halted,
                    cooldown_counter, safety_monitor, safety_class, response,
                    ticks_since_close, calls_since_close >>
    /\ UNCHANGED newsVars
    /\ UNCHANGED threadVars
    /\ UNCHANGED callVars

-----------------------------------------------------------------------------
(* news_scheduler beside the handlers *)

RawEvent(title, t) ==
    [country |-> "USD", impact |-> "High", title |-> title, minutes_until |-> t]

\* answers of the event source drawn while the bot runs: the two failed fetches,
\* an event 10 minutes ahead (lock) and an event 75 minutes ahead (warning)
SchedFeeds ==
    { [http |-> "exception", events |-> << >>],
      [http |-> "non200", events |-> << >>],
      [http |-> "ok", events |-> << RawEvent("Core CPI m/m", 10 * TicksPerMinute) >>],
      [http |-> "ok", events |-> << RawEvent("Core CPI m/m", 75 * TicksPerMinute) >>] }

\* a step of news_scheduler while the bot runs
NewsRefresh == Refresh(SchedFeeds, FALSE)

-----------------------------------------------------------------------------
(* The service: requests, commands and account updates, each in a thread of
   its own *)

NoResponse == [action |-> "NONE", reason |-> "NONE"]

\* no request and no command is being served, and no answer has been seen
Quiet ==
    /\ today = 0
    /\ response = NoResponse
    /\ ticks_since_close = -1
    /\ calls_since_close = -1
    /\ pc = [t \in Threads |-> "idle"]
    /\ seen = [t \in Threads |-> -1]
    /\ reg = [t \in Threads |-> -1]
    /\ local = [t \in Threads |-> NoLocals]
    /\ start_counter = -1
    /\ overlapped = FALSE
    /\ upd = [u \in Updaters |-> NoUpdate]
    /\ cmd = "idle"
    /\ args = NoCall
    /\ result = NoCall

\* lines 92-104: the news fields at module load, news_scheduler before its first
\* pass
NewsAtLoad ==
    /\ news_lock = FALSE
    /\ news_message = << "Initializing..." >>
    /\ news_risk_multiplier = RiskOne
    /\ news_next_event = << >>
    /\ feed = [http |-> "none", events |-> << >>]
    /\ sched = SchedStart
    /\ sent = << >>

\* the news fields and the locals of news_scheduler after a whole pass on the
\* answer f of the event source
NewsAfterPass(f) ==
    LET r == check_news_risk(f)
    IN  /\ news_lock = r.locked
        /\ news_message = r.message
        /\ news_risk_multiplier = r.risk_mult
        /\ news_next_event = IF r.next_event = << >> THEN << >>
                             ELSE << [title |-> r.next_event[1].title,
                                      minutes |-> IntMinutes(r.next_event[1].minutes_until)] >>
        /\ feed = f
        /\ sched = [SchedStart EXCEPT !.last_lock_state = r.locked,
                                      !.last_multiplier = r.risk_mult]
        /\ sent = << >>

\* the calendar with an event 10 minutes ahead
LockFeed == [http |-> "ok", events |-> << RawEvent("Core CPI m/m", 10 * TicksPerMinute) >>]

\* the monitor START installs after an account update with a loss of 6% of the
\* equity 100
HaltedMonitor == update(NewMonitor, 100, -6, 0)

\* the request with good bars and features whose logits give ACTION_NAMES[infer + 1]
PolicyRequest(infer) ==
    [body |-> "ok", m5_data |-> "ok", feat |-> "ok", account |-> "ok", close |-> 2000,
     atr_pct |-> 125, infer_ok |-> TRUE, infer |-> infer]

\* module load, then load_brain() in __main__
Init ==
    /\ status = "STOPPED"
    /\ model_loaded \in BOOLEAN
    /\ safety_enabled = FALSE
    /\ safety_halted = FALSE
    /\ cooldown_counter = 0
    /\ safety_monitor = NoMonitor
    /\ safety_class \in BOOLEAN
    /\ NewsAtLoad
    /\ Quiet
    /\ left = MaxOps

\* the service as module load left it and stopped, or after START, a CLOSE and
\* eleven further calls, with one bar of cooldown left, running or stopped
\* again; the news as module load or a pass of news_scheduler on LockFeed left
\* them
InitService ==
    /\ model_loaded \in BOOLEAN
    /\ safety_class \in BOOLEAN
    /\ safety_halted = FALSE
    /\ \/ /\ status = "STOPPED"
          /\ cooldown_counter = 0
          /\ safety_monitor = NoMonitor
          /\ safety_enabled = FALSE
       \/ /\ status \in {"STOPPED", "RUNNING"}
          /\ cooldown_counter = 1
          /\ safety_monitor = IF safety_class THEN NewMonitor ELSE NoMonitor
          /\ safety_enabled = safety_class
    /\ NewsAtLoad \/ NewsAfterPass(LockFeed)
    /\ Quiet
    /\ left = MaxOps

\* the requests drawn while commands and account updates are served
ServiceRequests == { PolicyRequest(1) }

\* a step of a /predict call
Predict == PredictCall(FALSE, ServiceRequests)

\* answers of the event source drawn while commands and account updates are
\* served: a failed fetch and an event 10 minutes ahead
ServiceFeeds == { [http |-> "non200", events |-> << >>], LockFeed }

\* a step of news_scheduler
ServiceRefresh == Refresh(ServiceFeeds, FALSE)

Next ==
    \/ Predict
    \/ UpdateStatus
    \/ Start
    \/ Stop
    \/ ResetSafety
    \/ ServiceRefresh
    \/ Fix
    \/ RestartService

Spec == InitService /\ [][Next]_vars

-----------------------------------------------------------------------------
(* The calls counted: calls_since_close is the number of /predict calls that
   have arrived since the last CLOSE, ticks_since_close the number of
   decrements of cooldown_counter since then, and `overlapped` whether a call
   has arrived while another was being served *)

\* the requests drawn: an empty body, malformed
\* bars, a raw ATR below the floor, a failing inference, and the logits of BUY
\* and CLOSE
CountedRequests ==
    { r \in Requests :
        \/ r.body = "empty"
        \/ r.m5_data = "malformed"
        \/ InputStop(r) = "PASS" /\ LowAtr(r.close, r.atr_pct) /\ r.infer = 0
        \/ InputStop(r) = "PASS" /\ ~r.infer_ok
        \/ r = PolicyRequest(1)
        \/ r = PolicyRequest(3) }

\* a step of a /predict call, the calls counted since the last CLOSE
PredictCounted == PredictCall(TRUE, CountedRequests)

\* the service as module load left it, or running after START, a CLOSE and ten
\* further calls, one after the other, each of which has decremented the
\* counter and the last of which was answered LOW_ATR
InitCounted ==
    \/ /\ status = "STOPPED"
       /\ model_loaded \in BOOLEAN
       /\ safety_enabled = FALSE
       /\ safety_halted = FALSE
       /\ cooldown_counter = 0
       /\ safety_monitor = NoMonitor
       /\ safety_class \in BOOLEAN
       /\ NewsAtLoad
       /\ Quiet
       /\ left = MaxCounted
    \/ /\ status = "RUNNING"
       /\ model_loaded = TRUE
       /\ safety_class \in BOOLEAN
       /\ safety_enabled = safety_class
       /\ safety_halted = FALSE
       /\ cooldown_counter = COOLDOWN_BARS - 10
       /\ safety_monitor = IF safety_class THEN NewMonitor ELSE NoMonitor
       /\ NewsAtLoad
       /\ today = 0
       /\ response = [action |-> "HOLD", reason |-> "LOW_ATR", atr |-> 80000, atr_pct |-> 40]
       /\ ticks_since_close = 10
       /\ calls_since_close = 10
       /\ pc = [t \in Threads |-> "idle"]
       /\ seen = [t \in Threads |-> -1]
       /\ reg = [t \in Threads |-> -1]
       /\ local = [t \in Threads |-> NoLocals]
       /\ start_counter = COOLDOWN_BARS - 9
       /\ overlapped = FALSE
       /\ upd = [u \in Updaters |-> NoUpdate]
       /\ cmd = "idle"
       /\ args = NoCall
       /\ result = NoCall
       /\ left = MaxCounted

NextCounted ==
    \/ PredictCounted
    \/ Start
    \/ Stop
    \/ ResetSafety
    \/ UpdateStatus
    \/ Fix
    \/ ServiceRefresh

SpecCounted == InitCounted /\ [][NextCounted]_vars

-----------------------------------------------------------------------------
(* check_news_risk on every feed of a bounded calendar *)

\* minutes_until at and around every threshold of the filter and of the zones
NewsTicks ==
    { -60 * TicksPerMinute - 1, -60 * TicksPerMinute,
      -LOCKDOWN_MINUTES_AFTER * TicksPerMinute - 1, -LOCKDOWN_MINUTES_AFTER * TicksPerMinute,
      -1, 0, 1,
      LOCKDOWN_MINUTES_BEFORE * TicksPerMinute, LOCKDOWN_MINUTES_BEFORE * TicksPerMinute + 1,
      75 * TicksPerMinute,
      WARNING_MINUTES * TicksPerMinute, WARNING_MINUTES * TicksPerMinute + 1,
      1440 * TicksPerMinute, 1440 * TicksPerMinute + 1 }

RawEvents ==
    { RawEvent(title, t) : title \in Titles, t \in NewsTicks }
    \cup { [country |-> "EUR", impact |-> "High", title |-> "Core CPI m/m",
            minutes_until |-> 10 * TicksPerMinute],
           [country |-> "USD", impact |-> "Low", title |-> "Core CPI m/m",
            minutes_until |-> 10 * TicksPerMinute] }

\* the calendars of at most n events, in any order, and the failed fetches
Feeds(n) ==
    { [http |-> h, events |-> << >>] : h \in {"non200", "exception"} }
    \cup UNION { { [http |-> "ok", events |-> es] : es \in [1 .. k -> RawEvents] } :
                 k \in 0 .. n }

\* the service at start-up, with the answer the event source will give to the
\* first fetch
InitNews ==
    /\ status = "STOPPED"
    /\ model_loaded = TRUE
    /\ news_lock = FALSE
    /\ news_message = << "Initializing..." >>
    /\ news_risk_multiplier = RiskOne
    /\ news_next_event = << >>
    /\ safety_enabled = FALSE
    /\ safety_halted = FALSE
    /\ cooldown_counter = 0
    /\ safety_monitor = NoMonitor
    /\ safety_class = TRUE
    /\ today = 0
    /\ feed \in Feeds(MaxEvents)
    /\ response = NoResponse
    /\ ticks_since_close = -1
    /\ calls_since_close = -1
    /\ pc = [t \in Threads |-> "idle"]
    /\ seen = [t \in Threads |-> -1]
    /\ reg = [t \in Threads |-> -1]
    /\ local = [t \in Threads |-> NoLocals]
    /\ cmd = "idle"
    /\ sched = SchedStart
    /\ sent = << >>
    /\ start_counter = -1
    /\ overlapped = FALSE
    /\ upd = [u \in Updaters |-> NoUpdate]
    /\ args = NoCall
    /\ result = NoCall
    /\ left = -1

\* the first pass of the loop of news_scheduler, on the answer `feed` of the
\* event source
NewsFetch == Refresh({ f \in {feed} : news_message = << "Initializing..." >> }, FALSE)

NextNews == NewsFetch

SpecNews == InitNews /\ [][NextNews]_vars

-----------------------------------------------------------------------------
(* Request threads in lines 477-481 of predict: the test of cooldown_counter, *)
(* the load of its value and the store of value - 1 are separate steps, and  *)
(* another thread may run between any two of them.                           *)

\* NThreads calls have passed the gates, the input checks and the feature
\* computation, and stand before the cooldown step
InitThreads ==
    /\ status = "RUNNING"
    /\ model_loaded = TRUE
    /\ news_lock = FALSE
    /\ news_message = << "Initializing..." >>
    /\ news_risk_multiplier = RiskOne
    /\ news_next_event = << >>
    /\ safety_enabled = TRUE
    /\ safety_halted = FALSE
    /\ cooldown_counter \in 0 .. COOLDOWN_BARS
    /\ safety_monitor = NewMonitor
    /\ safety_class = TRUE
    /\ today = 0
    /\ feed = [http |-> "none", events |-> << >>]
    /\ response = NoResponse
    /\ ticks_since_close = -1
    /\ calls_since_close = -1
    /\ pc = [t \in Threads |-> "477"]
    /\ seen = [t \in Threads |-> -1]
    /\ reg = [t \in Threads |-> -1]
    /\ local \in [Threads -> { LocalsAtCooldown(r) : r \in { q \in Requests : q.infer = 1 } }]
    /\ cmd = "idle"
    /\ sched = SchedStart
    /\ sent = << >>
    /\ start_counter = cooldown_counter
    /\ overlapped = FALSE
    /\ upd = [u \in Updaters |-> NoUpdate]
    /\ args = NoCall
    /\ result = NoCall
    /\ left = -1

NextThreads ==
    \E t \in Threads :
        /\ CooldownStepOf(t, FALSE)
        /\ UNCHANGED callVars

SpecThreads == InitThreads /\ [][NextThreads]_vars

-----------------------------------------------------------------------------
(* The safety monitor under account updates, day changes and the commands that *)
(* install a new monitor                                                       *)

\* equities around the drawdown limits 5 and 15 of a curve that has reached 1000:
\* -16%, -6%, exactly -5%, and the maximum itself
SafetyEquities == {840, 940, 950, 1000}

\* last_trade_pnl: none, a loss of 3% of 1000, a profit
SafetyPnls == {0, -30, 40}

\* the service after START, with the monitor START installs or a monitor built
\* with max_drawdown_pct = 5
InitSafety ==
    /\ status = "RUNNING"
    /\ model_loaded = TRUE
    /\ news_lock = FALSE
    /\ news_message = << "Initializing..." >>
    /\ news_risk_multiplier = RiskOne
    /\ news_next_event = << >>
    /\ safety_enabled = TRUE
    /\ safety_halted = FALSE
    /\ cooldown_counter = 0
    /\ safety_monitor \in { NewMonitor, TradingSafetyMonitor(MAX_DAILY_LOSS_PCT, 5) }
    /\ safety_class = TRUE
    /\ today = 0
    /\ feed = [http |-> "none", events |-> << >>]
    /\ response = NoResponse
    /\ ticks_since_close = -1
    /\ calls_since_close = -1
    /\ pc = [t \in Threads |-> "idle"]
    /\ seen = [t \in Threads |-> -1]
    /\ reg = [t \in Threads |-> -1]
    /\ local = [t \in Threads |-> NoLocals]
    /\ cmd = "idle"
    /\ sched = SchedStart
    /\ sent = << >>
    /\ start_counter = -1
    /\ overlapped = FALSE
    /\ upd = [u \in Updaters |-> NoUpdate]
    /\ args = NoCall
    /\ result = NoCall
    /\ left = MaxUpdates

SafetyUpdate == UpdateStatusOn(SafetyEquities, SafetyPnls)

NextSafety ==
    \/ SafetyUpdate
    \/ Midnight
    \/ StartMonitor
    \/ StartEnabled
    \/ StartHalted
    \/ StartStatus
    \/ ResetMonitor
    \/ ResetHalted

SpecSafety == InitSafety /\ [][NextSafety]_vars

-----------------------------------------------------------------------------
(* The performance check of the monitor, from a trade log that is one or two *)
(* trades short of the 50 it needs                                           *)

\* the pnl of each of the first 30 trades, and of each trade after them
PriorPnls == {-2, 2}
RecentPnls == {-3, 1, 3}

\* n copies of x
Repeat(x, n) == [i \in 1 .. n |-> x]

\* a monitor of the service after 30 + k updates on day 0, each with equity
\* 100000 and a trade: no drawdown, and a daily loss far from 5 percent
MonitorAfter(prior, recent, k) ==
    [NewMonitor EXCEPT
        !.equity_curve = Repeat(100000, 30 + k),
        !.trade_log = Repeat([day |-> 0, pnl |-> prior], 30)
                      \o Repeat([day |-> 0, pnl |-> recent], k)]

InitDegrade ==
    /\ status = "RUNNING"
    /\ model_loaded = TRUE
    /\ news_lock = FALSE
    /\ news_message = << "Initializing..." >>
    /\ news_risk_multiplier = RiskOne
    /\ news_next_event = << >>
    /\ safety_enabled = TRUE
    /\ safety_halted = FALSE
    /\ cooldown_counter = 0
    /\ safety_monitor \in { MonitorAfter(prior, recent, k) :
                               prior \in PriorPnls, recent \in RecentPnls, k \in {18, 19} }
    /\ safety_class = TRUE
    /\ today = 1
    /\ feed = [http |-> "none", events |-> << >>]
    /\ response = NoResponse
    /\ ticks_since_close = -1
    /\ calls_since_close = -1
    /\ pc = [t \in Threads |-> "idle"]
    /\ seen = [t \in Threads |-> -1]
    /\ reg = [t \in Threads |-> -1]
    /\ local = [t \in Threads |-> NoLocals]
    /\ cmd = "idle"
    /\ sched = SchedStart
    /\ sent = << >>
    /\ start_counter = -1
    /\ overlapped = FALSE
    /\ upd = [u \in Updaters |-> NoUpdate]
    /\ args = NoCall
    /\ result = NoCall
    /\ left = ExtraUpdates

\* last_trade_pnl of the updates: none, a loss, two profits
DegradePnls == {0, -3, 1, 3}

DegradeUpdate == UpdateStatusOn({100000}, DegradePnls)

NextDegrade == DegradeUpdate

SpecDegrade == InitDegrade /\ [][NextDegrade]_vars

-----------------------------------------------------------------------------
(* /predict with nothing but requests: every gate state, every request *)

\* the service at any time between two commands: stopped or running, the model
\* loaded or not, the monitor new or halted, one bar of cooldown left or none,
\* the news as module load or a pass of news_scheduler on LockFeed left them
Answering ==
    /\ status \in {"STOPPED", "RUNNING"}
    /\ model_loaded \in BOOLEAN
    /\ safety_class = TRUE
    /\ safety_enabled = TRUE
    /\ safety_halted = FALSE
    /\ safety_monitor \in {NewMonitor, HaltedMonitor}
    /\ cooldown_counter \in {0, 1}
    /\ NewsAtLoad \/ NewsAfterPass(LockFeed)
    /\ Quiet

InitAnswers ==
    /\ Answering
    /\ left = MaxCalls

\* a step of a /predict call on any request
PredictAnswer == PredictCall(FALSE, Requests)

NextAnswers == PredictAnswer

SpecAnswers == InitAnswers /\ [][NextAnswers]_vars

-----------------------------------------------------------------------------
(* /predict around the inference call, lines 498-509: scaler.transform and
   ort_session.run are called with no timeout, so the handler goes on only
   when the call comes back *)

\* after START with the model loaded: the monitor new or halted, the news as
\* module load or a pass of news_scheduler on LockFeed left them
Running ==
    /\ status = "RUNNING"
    /\ model_loaded = TRUE
    /\ safety_class = TRUE
    /\ safety_enabled = TRUE
    /\ safety_halted = FALSE
    /\ safety_monitor \in {NewMonitor, HaltedMonitor}
    /\ NewsAtLoad \/ NewsAfterPass(LockFeed)
    /\ Quiet

InitInfer ==
    /\ Running
    /\ cooldown_counter = 0
    /\ left = MaxCalls

\* the requests drawn: the logits of HOLD and the logits of CLOSE
InferRequests == { PolicyRequest(0), PolicyRequest(3) }

\* the steps of thread t that are statements of the handler itself: every step
\* but the return of scaler.transform / ort_session.run
HandlerRuns(t) ==
    /\ \/ Arrive(t, FALSE)
       \/ GateStep(t)
       \/ InputStep(t, InferRequests)
       \/ CooldownStepOf(t, FALSE)
       \/ CheckAtr(t)
       \/ ReadMultiplier(t)
       \/ ReadMessage(t)
    /\ UNCHANGED callVars

\* scaler.transform / ort_session.run of thread t come back
InferenceComesBack(t) ==
    /\ InferenceReturn(t, FALSE)
    /\ UNCHANGED callVars

NextInfer == \E t \in Threads : HandlerRuns(t) \/ InferenceComesBack(t)

\* a thread that can run a statement of the handler runs it; nothing in the
\* code makes the inference call come back
SpecInfer == InitInfer /\ [][NextInfer]_vars /\ \A t \in Threads : WF_vars(HandlerRuns(t))

-----------------------------------------------------------------------------
(* news_scheduler beside /status: bot_status is written with no lock *)

\* get_status, lines 360-362: jsonify(bot_status), the news fields of the answer
GetStatus ==
    /\ result' = [fn |-> "get_status", news_lock |-> news_lock,
                  news_message |-> news_message,
                  news_risk_multiplier |-> news_risk_multiplier,
                  news_next_event |-> news_next_event]
    /\ UNCHANGED botVars
    /\ UNCHANGED newsVars
    /\ UNCHANGED threadVars
    /\ UNCHANGED args

NextSnapshot == NewsRefresh \/ GetStatus

SpecSnapshot == Init /\ [][NextSnapshot]_vars

-----------------------------------------------------------------------------
(* news_scheduler with its notifications: the locals last_lock_state and
   last_multiplier of the loop, and the messages handed to send_telegram_msg *)

\* answers of the event source: those of SchedFeeds, an event 110 minutes ahead
\* (warning zone, multiplier above 0.7) and another event 5 minutes ahead (lock)
AlertFeeds ==
    SchedFeeds \cup
    { [http |-> "ok", events |-> << RawEvent("Core CPI m/m", 110 * TicksPerMinute) >>],
      [http |-> "ok", events |-> << RawEvent("Unemployment Claims", 5 * TicksPerMinute) >>] }

\* lines 269-271: the loop is entered with last_lock_state = False,
\* last_multiplier = 1.0
InitAlerts ==
    /\ status = "STOPPED"
    /\ model_loaded = TRUE
    /\ news_lock = FALSE
    /\ news_message = << "Initializing..." >>
    /\ news_risk_multiplier = RiskOne
    /\ news_next_event = << >>
    /\ safety_enabled = FALSE
    /\ safety_halted = FALSE
    /\ cooldown_counter = 0
    /\ safety_monitor = NoMonitor
    /\ safety_class = TRUE
    /\ today = 0
    /\ feed = [http |-> "none", events |-> << >>]
    /\ response = NoResponse
    /\ ticks_since_close = -1
    /\ calls_since_close = -1
    /\ pc = [t \in Threads |-> "idle"]
    /\ seen = [t \in Threads |-> -1]
    /\ reg = [t \in Threads |-> -1]
    /\ local = [t \in Threads |-> NoLocals]
    /\ cmd = "idle"
    /\ sched = SchedStart
    /\ sent = << >>
    /\ start_counter = -1
    /\ overlapped = FALSE
    /\ upd = [u \in Updaters |-> NoUpdate]
    /\ args = NoCall
    /\ result = NoCall
    /\ left = -1

\* a step of news_scheduler, its notifications recorded
AlertRefresh == Refresh(AlertFeeds, TRUE)

NextAlerts == AlertRefresh \/ SchedulerRaise

SpecAlerts == InitAlerts /\ [][NextAlerts]_vars

-----------------------------------------------------------------------------
(* /predict beside news_scheduler *)

\* after START, a CLOSE and eleven further calls: one bar of cooldown is left
InitLockRace ==
    /\ Running
    /\ cooldown_counter = 1
    /\ left = -1

NextLockRace == Predict \/ NewsRefresh

SpecLockRace == InitLockRace /\ [][NextLockRace]_vars

-----------------------------------------------------------------------------
(* the same /predict request sent twice *)

\* the request is drawn and nothing is sent yet
NoReplay == [fn |-> "predict", calls |-> 0, first |-> << >>, second |-> << >>,
             counter1 |-> -1, counter2 |-> -1]

\* the request that will be sent twice is drawn
ReplayRequest ==
    /\ args = NoCall
    /\ \E r \in Requests : args' = [fn |-> "predict", r |-> r]
    /\ result' = NoReplay
    /\ UNCHANGED botVars
    /\ UNCHANGED newsVars
    /\ UNCHANGED threadVars

\* the two calls, sent to thread 1 one after the other with the same request
\* args.r; result keeps the df_feat each call assigned at line 441 (none when
\* the call returned before that line) and the counter each call left
ReplayCall ==
    /\ args # NoCall
    /\ result.calls < 2
    /\ PredictStep(1, FALSE, {args.r})
    /\ UNCHANGED args
    /\ LET n == result.calls + 1
           features == IF pc[1] = "441" THEN local'[1].df_feat
                       ELSE IF n = 1 THEN result.first ELSE result.second
           returned == pc'[1] = "idle"
       IN  result' = [result EXCEPT
                        !.first = IF n = 1 THEN features ELSE @,
                        !.second = IF n = 2 THEN features ELSE @,
                        !.counter1 = IF n = 1 /\ returned THEN cooldown_counter' ELSE @,
                        !.counter2 = IF n = 2 /\ returned THEN cooldown_counter' ELSE @,
                        !.calls = IF returned THEN n ELSE @]

\* the calls of the other threads, made before, between and after the two and
\* answered CLOSE when they reach the policy
ReplayOther ==
    \E t \in Threads \ {1} :
        /\ PredictStep(t, FALSE, {PolicyRequest(3)})
        /\ UNCHANGED callVars

\* the passes of news_scheduler run beside the calls, so that the news state
\* of the second call may differ from that of the first
NextReplay ==
    \/ ReplayRequest
    \/ ReplayCall
    \/ ReplayOther
    \/ NewsRefresh

\* the two calls and one call of another thread
InitReplay ==
    /\ Answering
    /\ left = 3

SpecReplay == InitReplay /\ [][NextReplay]_vars

-----------------------------------------------------------------------------
(* features.py: the alignment of the higher timeframes, the pivots, the
   multi-timeframe gates and the confluence, as functions of their inputs *)

\* timestamps of higher-timeframe bars and of base bars
BarTimes == 1 .. MaxBars
BaseTimes == 0 .. MaxBars + 1

\* a higher-timeframe column in the order the bars were received: at each bar
\* its timestamp and the value of the feature computed there (a trend, 1 or -1)
Series ==
    UNION { [1 .. n -> [time : BarTimes, value : {-1, 1}]] : n \in 1 .. MaxBars }

IsIncreasing(s) == \A i \in 1 .. Len(s) - 1 : s[i].time < s[i + 1].time

IsDecreasing(s) == \A i \in 1 .. Len(s) - 1 : s[i].time > s[i + 1].time

IsUnique(s) == \A i, j \in 1 .. Len(s) : s[i].time = s[j].time => i = j

\* lines 378-379: pd.Series(values, index=df_h1.index)
\*                  .reindex(df.index, method='ffill').fillna(0), at one base
\* timestamp t. pandas raises on an index with duplicate labels or with no
\* monotonic order; on an increasing index, pad takes the last label <= t; on a
\* decreasing index it takes the exact label if there is one, else the position
\* before the insertion point, which is the last of the labels > t; no position
\* gives NaN, filled with 0
reindex_ffill(s, t) ==
    LET atOrBefore == { i \in 1 .. Len(s) : s[i].time <= t }
        exact == { i \in 1 .. Len(s) : s[i].time = t }
        after == { i \in 1 .. Len(s) : s[i].time > t }
    IN  IF ~IsUnique(s) THEN [raised |-> TRUE, value |-> 0]
        ELSE IF IsIncreasing(s)
        THEN [raised |-> FALSE,
              value |-> IF atOrBefore = {} THEN 0
                        ELSE s[CHOOSE i \in atOrBefore : \A j \in atOrBefore : j <= i].value]
        ELSE IF IsDecreasing(s)
        THEN [raised |-> FALSE,
              value |-> IF exact # {} THEN s[CHOOSE i \in exact : TRUE].value
                        ELSE IF after = {} THEN 0
                        ELSE s[Cardinality(after)].value]
        ELSE [raised |-> TRUE, value |-> 0]

\* the base bars of one calendar day, oldest first (compute_features sorts the
\* base frame, line 98): none, one bar, two bars, another single bar
DayBars ==
    { << >>,
      << [high |-> 12, low |-> 9, close |-> 10] >>,
      << [high |-> 12, low |-> 9, close |-> 10], [high |-> 15, low |-> 8, close |-> 14] >>,
      << [high |-> 7, low |-> 3, close |-> 4] >> }

PivotDays == 0 .. MaxPivotDay

RECURSIVE SeqMin(_)
SeqMin(s) == IF Len(s) = 1 THEN s[1] ELSE Min(s[1], SeqMin(Tail(s)))

\* line 140: df.resample('D').agg({'high':'max','low':'min','close':'last'}):
\* one row for each calendar day from the first to the last day with bars, NaN
\* on a day with no bar
resample(bars) ==
    LET days == { d \in PivotDays : bars[d] # << >> }
        first == CHOOSE d \in days : \A e \in days : d <= e
        last == CHOOSE d \in days : \A e \in days : e <= d
    IN  [i \in 1 .. (last - first + 1) |->
            LET d == first + i - 1
            IN  IF bars[d] = << >>
                THEN [day |-> d, nan |-> TRUE, high |-> 0, low |-> 0, close |-> 0]
                ELSE [day |-> d, nan |-> FALSE,
                      high |-> SeqMax([k \in 1 .. Len(bars[d]) |-> bars[d][k].high]),
                      low |-> SeqMin([k \in 1 .. Len(bars[d]) |-> bars[d][k].low]),
                      close |-> bars[d][Len(bars[d])].close]]

\* shift1 leaving every row where it is
shift1_None(rows) == rows

\* line 140: .shift(1): each label gets the values of the row before it
shift1(rows) ==
    [i \in 1 .. Len(rows) |->
        IF i = 1 THEN [day |-> rows[1].day, nan |-> TRUE, high |-> 0, low |-> 0, close |-> 0]
        ELSE [rows[i - 1] EXCEPT !.day = rows[i].day]]

\* line 140: .dropna()
dropna(rows) == SelectSeq(rows, LAMBDA row : ~row.nan)

\* lines 141-143, times 3: Pivot = (high + low + close) / 3,
\* R1 = 2 * Pivot - low, S1 = 2 * Pivot - high
pivot_levels(row) ==
    [nan |-> FALSE,
     Pivot |-> row.high + row.low + row.close,
     R1 |-> 2 * (row.high + row.low + row.close) - 3 * row.low,
     S1 |-> 2 * (row.high + row.low + row.close) - 3 * row.high]

NoLevels == [nan |-> TRUE, Pivot |-> 0, R1 |-> 0, S1 |-> 0]

\* lines 140-147: the levels of the base bars of day d:
\* df_day[...].reindex(df.index, method='ffill') takes the last daily row whose
\* label (the midnight of its day) is not after the bar
pivots(bars, d) ==
    LET df_day == dropna(shift1(resample(bars)))
        rows == { i \in 1 .. Len(df_day) : df_day[i].day <= d }
    IN  IF rows = {} THEN NoLevels
        ELSE pivot_levels(df_day[CHOOSE i \in rows : \A j \in rows : j <= i])

Timeframes == {"h1", "h4", "d1"}

\* numbers of bars sent for a timeframe, around the thresholds
BarCounts == {0, 30, 31, 50, 51, 199, 200, 201}

\* linux_api.py lines 419-438: the frame of a timeframe is built when
\* h1_data and len(h1_data) > 200, h4_data and len(h4_data) > 50,
\* d1_data and len(d1_data) > 30; else it stays None
parse_gate(tf, n) ==
    n > 0 /\ n > (IF tf = "h1" THEN 200 ELSE IF tf = "h4" THEN 50 ELSE 30)

\* features.py lines 372, 381, 390: if df_h1 is not None and len(df_h1) > 200,
\* the same for df_h4 and df_d1
feature_gate(tf, parsed, n) == parsed /\ n > 200

\* whether the columns of timeframe tf are computed for a request with n[tf] bars
mtf_computed(n) == [tf \in Timeframes |-> feature_gate(tf, parse_gate(tf, n[tf]), n[tf])]

Trends == {-1, 0, 1}

\* lines 399-403, times 6: (h1_trend * 1 + h4_trend * 2 + d1_trend * 3) / 6.0
mtf_confluence(h1_trend, h4_trend, d1_trend) == h1_trend * 1 + h4_trend * 2 + d1_trend * 3

\* mtf_alignment without the test of a non-zero trend
mtf_alignment_AnyEqual(h1_trend, h4_trend, d1_trend) ==
    IF h1_trend = h4_trend /\ h4_trend = d1_trend THEN 1 ELSE 0

\* lines 406-410: ((h1 == h4) & (h4 == d1) & (h1 != 0)).astype(int)
mtf_alignment(h1_trend, h4_trend, d1_trend) ==
    IF h1_trend = h4_trend /\ h4_trend = d1_trend /\ h1_trend # 0 THEN 1 ELSE 0

\* atr_14 / atr_ma in tenths, around the thresholds 0.5 and 2.0; nan where atr_ma
\* is undefined (fewer than 10 rows in the window) or the quotient is 0/0
AtrRatios == [nan : {TRUE}, tenths : {0}] \cup [nan : {FALSE}, tenths : {4, 5, 6, 20, 21}]

\* adx around the thresholds 20 and 25
Adxs == {19, 20, 21, 25, 26}

\* line 463: df['atr_ratio'].fillna(1.0), in tenths
fillna_one(atr_ratio) == IF atr_ratio.nan THEN 10 ELSE atr_ratio.tenths

\* regime_features with regime_trending not looking at the volatile flag
regime_features_TrendingAlone(atr_ratio, adx) ==
    LET ratio == fillna_one(atr_ratio)
        volatile == ratio > 20
        quiet == ratio < 5
        trending == adx > 25 /\ ~quiet
        ranging == adx < 20 /\ ~volatile /\ ~quiet
    IN  [regime_volatile |-> IF volatile THEN 1 ELSE 0,
         regime_quiet |-> IF quiet THEN 1 ELSE 0,
         regime_trending |-> IF trending THEN 1 ELSE 0,
         regime_ranging |-> IF ranging THEN 1 ELSE 0,
         regime_multiplier |-> IF quiet THEN 3 ELSE IF volatile THEN 5
                               ELSE IF ranging THEN 7 ELSE IF trending THEN 12 ELSE 10]

\* lines 461-486 on one row: the four flags, and the multiplier in tenths; the
\* multiplier is assigned for trending, ranging, volatile, quiet in this order,
\* the last assignment staying
regime_features(atr_ratio, adx) ==
    LET ratio == fillna_one(atr_ratio)
        volatile == ratio > 20
        quiet == ratio < 5
        trending == adx > 25 /\ ~volatile /\ ~quiet
        ranging == adx < 20 /\ ~volatile /\ ~quiet
    IN  [regime_volatile |-> IF volatile THEN 1 ELSE 0,
         regime_quiet |-> IF quiet THEN 1 ELSE 0,
         regime_trending |-> IF trending THEN 1 ELSE 0,
         regime_ranging |-> IF ranging THEN 1 ELSE 0,
         regime_multiplier |-> IF quiet THEN 3 ELSE IF volatile THEN 5
                               ELSE IF ranging THEN 7 ELSE IF trending THEN 12 ELSE 10]

\* what a field of a row holds
FieldKinds == {"finite", "nan", "inf"}

\* a row of the feature table by what its columns will hold: "early" stands for
\* the columns computed up to compute_mtf_enhanced_features, "regime" for the
\* columns that _compute_regime_features adds
FeatureRows == [early : FieldKinds, regime : FieldKinds]

FeatureTables == UNION { [1 .. n -> FeatureRows] : n \in 1 .. MaxRows }

\* replace_inf_dropna leaving the infinite fields in place
replace_inf_dropna_NoReplace(rows, columns) ==
    SelectSeq(rows, LAMBDA row : \A c \in columns : row[c] # "nan")

\* lines 174, 310, 442, 531: df.replace([np.inf, -np.inf], np.nan).dropna() on
\* the columns computed so far
replace_inf_dropna(rows, columns) ==
    SelectSeq(rows, LAMBDA row : \A c \in columns : row[c] = "finite")

\* lines 516-531: compute_regime_enhanced_features: the table of
\* compute_mtf_enhanced_features, cleaned at line 442, then the regime columns,
\* then the cleaning of line 531
compute_regime_enhanced_features(rows) ==
    replace_inf_dropna(replace_inf_dropna(rows, {"early"}), {"early", "regime"})

\* linux_api.py lines 441-442, 484: FEAT_ERROR on an empty table, else the last
\* row goes on to the scaler
feature_stop(df_feat) ==
    LET stop == InputStop([body |-> "ok", m5_data |-> "ok", account |-> "ok",
                           feat |-> IF df_feat = << >> THEN "empty" ELSE "ok"])
    IN  [reason |-> stop,
         last_row |-> IF stop = "PASS" THEN << df_feat[Len(df_feat)] >> ELSE << >>]

\* lines 276-281, times 1000: the row of the day in
\* df.resample('D').agg({'high': 'max', 'low': 'min', 'close': 'last'}) holds the
\* high and the low of all the bars of the day in the frame;
\* fib_382 = low + (high - low) * 0.382, fib_618 = low + (high - low) * 0.618,
\* placed by reindex(method='ffill') at every bar of the day, whatever its index i
fib_levels(day, i) ==
    LET high == SeqMax([k \in 1 .. Len(day) |-> day[k].high])
        low == SeqMin([k \in 1 .. Len(day) |-> day[k].low])
    IN  [fib_382 |-> 1000 * low + (high - low) * 382,
         fib_618 |-> 1000 * low + (high - low) * 618]

\* one call of one of the functions, on every input of the bounded sets
InitFeatures ==
    /\ status = "STOPPED"
    /\ model_loaded = TRUE
    /\ news_lock = FALSE
    /\ news_message = << "Initializing..." >>
    /\ news_risk_multiplier = RiskOne
    /\ news_next_event = << >>
    /\ safety_enabled = FALSE
    /\ safety_halted = FALSE
    /\ cooldown_counter = 0
    /\ safety_monitor = NoMonitor
    /\ safety_class = TRUE
    /\ today = 0
    /\ feed = [http |-> "none", events |-> << >>]
    /\ response = NoResponse
    /\ ticks_since_close = -1
    /\ calls_since_close = -1
    /\ pc = [t \in Threads |-> "idle"]
    /\ seen = [t \in Threads |-> -1]
    /\ reg = [t \in Threads |-> -1]
    /\ local = [t \in Threads |-> NoLocals]
    /\ cmd = "idle"
    /\ sched = SchedStart
    /\ sent = << >>
    /\ start_counter = -1
    /\ overlapped = FALSE
    /\ upd = [u \in Updaters |-> NoUpdate]
    /\ \/ args \in [fn : {"reindex"}, series : Series, t : BaseTimes]
       \/ args \in { a \in [fn : {"pivots"}, bars : [PivotDays -> DayBars]] :
                       \E d \in PivotDays : a.bars[d] # << >> }
       \/ args \in [fn : {"gates"}, n : [Timeframes -> BarCounts]]
       \/ args \in [fn : {"confluence"}, h1_trend : Trends, h4_trend : Trends,
                    d1_trend : Trends]
       \/ args \in [fn : {"regime"}, atr_ratio : AtrRatios, adx : Adxs]
       \/ args \in [fn : {"pipeline"}, rows : FeatureTables]
       \/ args \in { a \in [fn : {"fib"}, day : DayBars \ { << >> }, i : 1 .. 2] :
                       a.i <= Len(a.day) }
    /\ result = NoCall
    /\ left = -1

CallReindex ==
    /\ args.fn = "reindex"
    /\ result = NoCall
    /\ result' = [fn |-> "reindex"] @@ reindex_ffill(args.series, args.t)
    /\ UNCHANGED << botVars, newsVars, threadVars, args >>

CallPivots ==
    /\ args.fn = "pivots"
    /\ result = NoCall
    /\ result' = [fn |-> "pivots",
                  levels |-> [d \in { e \in PivotDays : args.bars[e] # << >> }
                                |-> pivots(args.bars, d)]]
    /\ UNCHANGED << botVars, newsVars, threadVars, args >>

CallGates ==
    /\ args.fn = "gates"
    /\ result = NoCall
    /\ result' = [fn |-> "gates",
                  parsed |-> [tf \in Timeframes |-> parse_gate(tf, args.n[tf])],
                  computed |-> mtf_computed(args.n)]
    /\ UNCHANGED << botVars, newsVars, threadVars, args >>

CallConfluence ==
    /\ args.fn = "confluence"
    /\ result = NoCall
    /\ result' = [fn |-> "confluence",
                  mtf_confluence |-> mtf_confluence(args.h1_trend, args.h4_trend, args.d1_trend),
                  mtf_alignment |-> mtf_alignment(args.h1_trend, args.h4_trend, args.d1_trend)]
    /\ UNCHANGED << botVars, newsVars, threadVars, args >>

CallRegime ==
    /\ args.fn = "regime"
    /\ result = NoCall
    /\ result' = [fn |-> "regime"] @@ regime_features(args.atr_ratio, args.adx)
    /\ UNCHANGED << botVars, newsVars, threadVars, args >>

CallPipeline ==
    /\ args.fn = "pipeline"
    /\ result = NoCall
    /\ LET df_feat == compute_regime_enhanced_features(args.rows)
       IN  result' = [fn |-> "pipeline", df_feat |-> df_feat] @@ feature_stop(df_feat)
    /\ UNCHANGED << botVars, newsVars, threadVars, args >>

CallFib ==
    /\ args.fn = "fib"
    /\ result = NoCall
    /\ result' = [fn |-> "fib"] @@ fib_levels(args.day, args.i)
    /\ UNCHANGED << botVars, newsVars, threadVars, args >>

NextFeatures ==
    \/ CallFib
    \/ CallReindex
    \/ CallPivots
    \/ CallGates
    \/ CallConfluence
    \/ CallRegime
    \/ CallPipeline

SpecFeatures == InitFeatures /\ [][NextFeatures]_vars

-----------------------------------------------------------------------------
(* Properties *)

Halted == HasMonitor(safety_monitor) /\ ~can_trade(safety_monitor)

\* no request is being served
AllIdle == \A t \in Threads : pc[t] = "idle"

\* thread u runs the statement of update_status it stands before at `line`, on
\* the monitor of the service
Runs(u, line) == upd[u].line = line /\ upd'[u].line # line /\ upd[u].own

\* no account update is at work on the monitor of the service
UpdateQuiet == \A u \in Updaters : upd[u].line \in {"idle", "353"} \/ ~upd[u].own

\* thread t runs a statement of predict in this step
Moves(t) == pc'[t] # pc[t]

\* the call of thread t is answered in this step
Answered(t) == pc[t] # "idle" /\ pc'[t] = "idle"

\* the lines of the four pre-conditions
GateLines == {"382", "384", "385", "386", "390", "391"}

\* C1: whenever the run-status is not RUNNING, every predict call, whatever its
\* payload and whatever the news, safety, model and cooldown state, answers
\* action HOLD with reason STOPPED: the first statement of the handler reads the
\* run-status and returns that answer, before any other state is read
C1_StoppedHolds ==
    [][\A t \in Threads :
          Moves(t) /\ pc[t] = "382" /\ status # "RUNNING"
            => Answered(t) /\ response' = Hold("STOPPED")]_vars

\* a STOPPED answer given while the news is locked, the monitor halted, the
\* model loaded and the cooldown running
C1_Witness ==
    /\ status = "STOPPED"
    /\ response = Hold("STOPPED")
    /\ news_lock
    /\ Halted
    /\ model_loaded
    /\ cooldown_counter > 0
    /\ AllIdle

\* the first blocking condition in the order the claim C2 gives
ClaimedFirstBlock ==
    IF status # "RUNNING" THEN "STOPPED"
    ELSE IF news_lock THEN "NEWS_FILTER"
    ELSE IF Halted THEN "SAFETY_HALT"
    ELSE IF ~model_loaded THEN "MODEL_NOT_LOADED"
    ELSE "PASS"

\* the first blocking condition in the order STOPPED, NEWS_FILTER,
\* MODEL_NOT_LOADED, SAFETY_HALT
FirstBlock ==
    IF status # "RUNNING" THEN "STOPPED"
    ELSE IF news_lock THEN "NEWS_FILTER"
    ELSE IF ~model_loaded THEN "MODEL_NOT_LOADED"
    ELSE IF Halted THEN "SAFETY_HALT"
    ELSE "PASS"

\* C2 as claimed: the reason of every predict call is the earliest blocking
\* condition in the order STOPPED, NEWS_FILTER, SAFETY_HALT, MODEL_NOT_LOADED
C2_Original ==
    response # NoResponse /\ ClaimedFirstBlock # "PASS" => response.reason = ClaimedFirstBlock

\* C2: the reason of every predict call is the earliest blocking condition in
\* the order STOPPED, NEWS_FILTER, MODEL_NOT_LOADED, SAFETY_HALT, then the input
\* checks, then LOW_ATR, then the policy: with the run-status, the news, the
\* model and the monitor held fixed every answer has the reason of the first
\* condition that blocks, and the statements of the handler test the conditions
\* in this order, each returning its reason or going on to the next
C2_GateOrder ==
    /\ [](response # NoResponse =>
            IF FirstBlock # "PASS" THEN response.reason = FirstBlock
            ELSE response.reason \in {"BAD_JSON", "NO_DATA", "ERROR", "FEAT_ERROR",
                                      "LOW_ATR", "MODEL"})
    /\ [][\A t \in Threads : Moves(t) =>
            /\ pc[t] = "382" =>
                 IF status # "RUNNING" THEN Answered(t) /\ response'.reason = "STOPPED"
                 ELSE pc'[t] = "384"
            /\ pc[t] = "384" => pc'[t] = IF news_lock THEN "385" ELSE "386"
            /\ pc[t] = "385" => Answered(t) /\ response'.reason = "NEWS_FILTER"
            /\ pc[t] = "386" =>
                 IF ~model_loaded THEN Answered(t) /\ response'.reason = "MODEL_NOT_LOADED"
                 ELSE pc'[t] = "390"
            /\ pc[t] = "390" => pc'[t] = IF Halted THEN "391" ELSE "396"
            /\ pc[t] = "391" => Answered(t) /\ response'.reason = "SAFETY_HALT"
            /\ pc[t] = "396" => pc'[t] = "397"
            /\ pc[t] = "397" =>
                 LET r == local[t].r
                 IN  IF r.body = "empty" THEN Answered(t) /\ response'.reason = "BAD_JSON"
                     ELSE IF r.m5_data = "empty"
                     THEN Answered(t) /\ response'.reason = "NO_DATA"
                     ELSE IF r.m5_data = "malformed"
                     THEN Answered(t) /\ response'.reason = "ERROR"
                     ELSE pc'[t] = "441"
            /\ pc[t] = "441" => pc'[t] = "442"
            /\ pc[t] = "442" =>
                 LET r == local[t].r
                 IN  IF r.feat = "empty"
                     THEN Answered(t) /\ response'.reason = "FEAT_ERROR"
                     ELSE IF r.account = "malformed"
                     THEN Answered(t) /\ response'.reason = "ERROR"
                     ELSE pc'[t] = "477"
            /\ pc[t] = "477" => pc'[t] \in {"479", "484"}
            /\ pc[t] = "479" => pc'[t] = "479 store"
            /\ pc[t] = "479 store" => pc'[t] = "484"
            /\ pc[t] = "484" =>
                 IF local[t].r.close * local[t].r.atr_pct < MIN_ATR * 100000
                 THEN Answered(t) /\ response'.reason = "LOW_ATR"
                 ELSE pc'[t] = "499"
            /\ pc[t] = "499" =>
                 IF ~local[t].r.infer_ok THEN Answered(t) /\ response'.reason = "ERROR"
                 ELSE pc'[t] = "537"
            /\ pc[t] = "537" => pc'[t] = "543"
            /\ pc[t] = "543" => Answered(t) /\ response'.reason = "MODEL"]_vars

\* a RUNNING, unlocked bot with the monitor halted and the model not loaded has
\* answered MODEL_NOT_LOADED
C2_Witness ==
    /\ status = "RUNNING"
    /\ ~news_lock
    /\ ~model_loaded
    /\ Halted
    /\ response = Hold("MODEL_NOT_LOADED")

\* C3 as claimed: while the monitor is halted every predict call answered by one
\* of the pre-conditions has the reason SAFETY_HALT when the bot is RUNNING and
\* not news-locked
C3_Original ==
    [][\A t \in Threads :
          Answered(t) /\ pc[t] \in GateLines /\ Halted /\ status = "RUNNING" /\ ~news_lock
            => response'.reason = "SAFETY_HALT"]_vars

\* C3: from the account update that halts the monitor until the next START or
\* RESET_SAFETY, the monitor stays halted; every predict call whose safety check
\* (line 390) runs in that interval is answered HOLD with reason SAFETY_HALT, and
\* every call one of the pre-conditions answers in that interval is answered HOLD
C3_HaltedUntilReset ==
    /\ [][Halted /\ ~Halted' => StartMonitor \/ ResetMonitor]_vars
    /\ [][\A t \in Threads :
            /\ Moves(t) /\ pc[t] = "390" /\ Halted => pc'[t] = "391"
            /\ Moves(t) /\ pc[t] = "391"
                 => /\ Answered(t)
                    /\ response'.action = "HOLD"
                    /\ response'.reason = "SAFETY_HALT"
            /\ Answered(t) /\ pc[t] \in GateLines /\ Halted => response'.action = "HOLD"]_vars

\* a halted monitor has made a RUNNING, unlocked bot with a loaded model answer
\* SAFETY_HALT
C3_Witness ==
    /\ Halted
    /\ status = "RUNNING"
    /\ ~news_lock
    /\ model_loaded
    /\ response.reason = "SAFETY_HALT"
    /\ response.action = "HOLD"
    /\ safety_halted

\* C4 as claimed: a predict call of a RUNNING bot that finds the news locked is
\* answered with a response that reports risk_multiplier = 0
C4_Original ==
    [][\A t \in Threads :
          Answered(t) /\ pc[t] = "385"
            => /\ "news_risk_multiplier" \in DOMAIN response'
               /\ response'.news_risk_multiplier = 0]_vars

\* C5 as claimed: k predict calls after a CLOSE, whatever they return, leave the
\* counter at 12 - k, so that it is 0 after exactly 12 calls and not before;
\* required here only of runs in which no call arrived while another was being
\* served
C5_Original ==
    ~overlapped /\ AllIdle /\ calls_since_close >= 0
        => cooldown_counter = COOLDOWN_BARS - calls_since_close

\* C6 as claimed: while Busy every predict call decrements the counter by
\* exactly 1, gated HOLDs included, and the cooldown value handed to the policy
\* is 0 exactly when the counter was > 0 at the start of the call; required here
\* only of calls answered in runs in which no call arrived while another was
\* being served
C6_Original ==
    [][\A t \in Threads : Answered(t) /\ ~overlapped =>
          /\ start_counter > 0 => cooldown_counter' = start_counter - 1
          /\ response'.reason = "MODEL"
               => response'.debug.cooldown = IF start_counter > 0 THEN 0 ELSE 1]_vars

\* the inference call of some thread comes back with the logits of CLOSE
CloseComesBack ==
    \E t \in Threads :
        /\ pc[t] = "499"
        /\ pc'[t] = "537"
        /\ ACTION_NAMES[local[t].r.infer + 1] = "CLOSE"

\* C7 as claimed: with the calls served one at a time the counter stays in
\* 0..12, only predict changes it, and it moves upward only from 0 to 12, by a
\* predict whose final action is CLOSE
C7_Original ==
    [][/\ ~overlapped' => cooldown_counter' \in 0 .. COOLDOWN_BARS
       /\ cooldown_counter' # cooldown_counter => PredictCounted
       /\ ~overlapped' /\ cooldown_counter' > cooldown_counter
            => /\ cooldown_counter = 0
               /\ cooldown_counter' = COOLDOWN_BARS
               /\ CloseComesBack]_vars

\* C7: as long as no call has arrived while another was being served the
\* counter stays in 0..12 and moves upward only to 12, by a predict whose final
\* action is CLOSE, from Ready or from Busy; only predict ever changes it
C7_CooldownRange ==
    /\ [][/\ ~overlapped' => cooldown_counter' \in 0 .. COOLDOWN_BARS
          /\ cooldown_counter' # cooldown_counter => PredictCounted
          /\ ~overlapped' /\ cooldown_counter' > cooldown_counter
               => /\ cooldown_counter' = COOLDOWN_BARS
                  /\ CloseComesBack]_vars
    /\ [][\A t \in Threads :
            Answered(t) /\ pc[t] = "543"
              => response'.action = ACTION_NAMES[local[t].r.infer + 1]]_vars

\* a CLOSE answered while Busy (cooldown value 0) has restarted the counter at 12
C7_Witness ==
    /\ ~overlapped
    /\ response.reason = "MODEL"
    /\ response.action = "CLOSE"
    /\ response.debug.cooldown = 0
    /\ cooldown_counter = COOLDOWN_BARS
    /\ ticks_since_close = 0
    /\ AllIdle

\* every thread has run lines 477-481
AllDone == \A t \in Threads : pc[t] = "484"

\* C8 as claimed: NThreads concurrent calls on a counter c leave it at
\* max(c - NThreads, 0), and the counter is never below 0
C8_Original ==
    /\ cooldown_counter >= 0
    /\ AllDone => cooldown_counter = Max(start_counter - NThreads, 0)

\* C9 as claimed: while the counter is > 0 no predict call answers BUY or SELL,
\* also when the calls are served one at a time
C9_Original ==
    [][\A t \in Threads :
          Answered(t) /\ ~overlapped /\ start_counter > 0 /\ cooldown_counter > 0
            => response'.action \notin {"BUY", "SELL"}]_vars

\* the first pass of news_scheduler has published the result of check_news_risk
\* on `feed`
Published == news_message # << "Initializing..." >> /\ SchedIdle

\* C10: for every event list the published result of check_news_risk has its
\* multiplier in [0, 1], and 0 when it is locked
C10_RiskRange ==
    /\ 0 <= news_risk_multiplier
    /\ news_risk_multiplier <= RiskOne
    /\ Published /\ news_lock => news_risk_multiplier = 0
    /\ check_news_risk(feed).risk_mult \in 0 .. RiskOne
    /\ check_news_risk(feed).locked => check_news_risk(feed).risk_mult = 0

\* a calendar of two events has been evaluated to a lock
C10_Witness ==
    /\ Published
    /\ Len(feed.events) = 2
    /\ news_lock
    /\ news_risk_multiplier = 0

\* the events check_news_risk received for `feed`: filtered and sorted
Qualifying == fetch_forexfactory_events(feed).events

Abs(x) == IF x < 0 THEN -x ELSE x

\* the qualifying events at the smallest distance |minutes_until| from now
NearestEvents ==
    { Qualifying[i] : i \in { k \in DOMAIN Qualifying :
          \A j \in DOMAIN Qualifying :
              Abs(Qualifying[k].minutes_until) <= Abs(Qualifying[j].minutes_until) } }

\* C11 as claimed: for every list of qualifying events the published lock and
\* multiplier are those computed for the event nearest to now, the one with the
\* smallest |minutes_until|
C11_Original ==
    Published /\ Qualifying # << >> =>
        \E e \in NearestEvents :
            /\ news_lock = RiskOfClosest(e).locked
            /\ news_risk_multiplier = RiskOfClosest(e).risk_mult

\* C12: for the evaluated event the zone is a total function of minutes_until:
\* [-15, 0) and [0, 30] lock with multiplier 0, (30, 120] does not lock, and every
\* other value does not lock and has multiplier exactly 1.0
C12_ZoneTotal ==
    Published /\ Qualifying # << >> =>
        LET t == Qualifying[1].minutes_until
            T == TicksPerMinute
        IN  /\ -15 * T <= t /\ t < 0 => news_lock /\ news_risk_multiplier = 0
            /\ 0 <= t /\ t <= 30 * T => news_lock /\ news_risk_multiplier = 0
            /\ 30 * T < t /\ t <= 120 * T => ~news_lock
            /\ t < -15 * T \/ t > 120 * T
                 => ~news_lock /\ news_risk_multiplier = RiskOne

\* an event released exactly 15 minutes ago has been evaluated to a lock
C12_Witness ==
    /\ Published
    /\ Qualifying # << >>
    /\ Qualifying[1].minutes_until = -15 * TicksPerMinute
    /\ news_lock
    /\ news_risk_multiplier = 0

\* the multiplier of the warning zone at t ticks, times RiskOne * 900 * TicksPerMinute:
\* 0.3 + 0.7 * (minutes_until - 30) / 90
Interpolated900(t) == RiskOne * (270 * TicksPerMinute + 7 * (t - 30 * TicksPerMinute))

\* the multiplier of the warning zone does not decrease from one tick to the next
WarningMonotone ==
    \A t \in (30 * TicksPerMinute + 1) .. (120 * TicksPerMinute - 1) :
        WarningRisk(t) <= WarningRisk(t + 1)

\* C13: in the warning zone the multiplier is 0.3 + 0.7 * (minutes_until - 30) / 90,
\* times 0.7 exactly when the title contains an entry of the gold list; it is
\* non-decreasing in minutes_until, 1.0 (0.7 for a gold title) at 120, and never
\* leaves [0.21, 1.0]
C13_WarningInterpolation ==
    /\ Published /\ Qualifying # << >>
          /\ 30 * TicksPerMinute < Qualifying[1].minutes_until
          /\ Qualifying[1].minutes_until <= 120 * TicksPerMinute
        => LET t == Qualifying[1].minutes_until
               gold == \E g \in GOLD_HIGH_IMPACT_EVENTS : Contains(Qualifying[1].title, g)
           IN  /\ ~gold => news_risk_multiplier * 900 * TicksPerMinute = Interpolated900(t)
               /\ gold => news_risk_multiplier * 9000 * TicksPerMinute = 7 * Interpolated900(t)
               /\ t = 120 * TicksPerMinute /\ ~gold => news_risk_multiplier = RiskOne
               /\ 21 * RiskOne <= 100 * news_risk_multiplier
               /\ news_risk_multiplier <= RiskOne
    /\ WarningMonotone

\* a gold-specific event 75 minutes ahead has been evaluated to 0.7 * 0.65 = 0.455
C13_Witness ==
    /\ Published
    /\ Qualifying # << >>
    /\ Qualifying[1].minutes_until = 75 * TicksPerMinute
    /\ Qualifying[1].title = "Core CPI m/m"
    /\ ~news_lock
    /\ 1000 * news_risk_multiplier = 455 * RiskOne

\* C14: after a pass of news_scheduler whose fetch failed (non-200 answer or
\* exception) the news state is clear, news_lock false and multiplier 1.0,
\* whatever it was before
C14_FailOpen ==
    SchedIdle /\ feed.http \in {"non200", "exception"} =>
        ~news_lock /\ news_risk_multiplier = RiskOne

\* a failed fetch has cleared a lock under which a predict call was held
C14_Witness ==
    /\ SchedIdle
    /\ feed.http = "non200"
    /\ sched.last_lock_state = FALSE
    /\ ~news_lock
    /\ news_risk_multiplier = RiskOne
    /\ status = "RUNNING"
    /\ response.reason = "NEWS_FILTER"

\* C15 as claimed: the message published after a failed fetch differs from the
\* message published after a successful fetch without qualifying events
C15_Original ==
    Published /\ feed.http \in {"non200", "exception"} =>
        news_message # check_news_risk([http |-> "ok", events |-> << >>]).message

\* the alerts of the given type the monitor m has raised
CountAlerts(m, type) == Len(SelectSeq(m.alerts, LAMBDA a : a = type))

\* the last equity of the curve of m is more than max_drawdown_pct percent below
\* the maximum of the whole curve
DrawdownBreached(m) ==
    /\ Len(m.equity_curve) >= 2
    /\ LET points == { m.equity_curve[i] : i \in DOMAIN m.equity_curve }
           running_max == CHOOSE x \in points : \A y \in points : y <= x
           current == m.equity_curve[Len(m.equity_curve)]
       IN  (current - running_max) * 100 < -m.max_drawdown_pct * running_max

RECURSIVE SumOfDay(_, _, _)
SumOfDay(log, day, i) ==
    IF i = 0 THEN 0
    ELSE (IF log[i].day = day THEN log[i].pnl ELSE 0) + SumOfDay(log, day, i - 1)

\* the trades of m logged on `day` sum to a loss of more than max_daily_loss_pct
\* percent of the first equity of the curve
DailyLossBreached(m, day) ==
    /\ \E i \in DOMAIN m.trade_log : m.trade_log[i].day = day
    /\ m.equity_curve # << >>
    /\ SumOfDay(m.trade_log, day, Len(m.trade_log)) * 100
          < -m.max_daily_loss_pct * m.equity_curve[1]

\* C16: once the updates at work have returned, a monitor whose latest equity is
\* more than max_drawdown_pct percent below the maximum of the whole curve is
\* Halted; the drawdown check of an update halts exactly in that case (not at
\* a drawdown equal to the limit, nor on a curve of one point), and then sets
\* trading_enabled to false and raises a MAX_DRAWDOWN alert
C16_DrawdownHalts ==
    /\ [](HasMonitor(safety_monitor) /\ UpdateQuiet /\ DrawdownBreached(safety_monitor)
            => ~can_trade(safety_monitor))
    /\ [][\A u \in Updaters :
            /\ Runs(u, "69") => upd'[u].line = IF DrawdownBreached(safety_monitor)
                                               THEN "78" ELSE "89"
            /\ Runs(u, "78") => upd'[u].line = "79" /\ ~can_trade(safety_monitor')
            /\ Runs(u, "79") => /\ upd'[u].line = "89"
                                /\ safety_monitor'.alerts
                                      = Append(safety_monitor.alerts, "MAX_DRAWDOWN")]_vars
    /\ [][HasMonitor(safety_monitor) /\ can_trade(safety_monitor) /\ Halted'
            => \E u \in Updaters : Runs(u, "58") \/ Runs(u, "78")]_vars

\* equity 1000 then 940 has halted a monitor whose max_drawdown_pct is 5
C16_Witness ==
    /\ HasMonitor(safety_monitor)
    /\ UpdateQuiet
    /\ safety_monitor.max_drawdown_pct = 5
    /\ safety_monitor.equity_curve = << 1000, 940 >>
    /\ safety_monitor.alerts = << "MAX_DRAWDOWN" >>
    /\ ~can_trade(safety_monitor)

\* C17: once the updates at work have returned, a monitor whose trades logged
\* today sum to a loss of more than max_daily_loss_pct percent of the first
\* equity of the curve is Halted; the daily-loss check of an update halts
\* exactly in that case, for the day its own clock read shows, and then sets
\* trading_enabled to false and raises a DAILY_LOSS_LIMIT alert; trades of
\* earlier days do not count
C17_DailyLossHalts ==
    /\ [](HasMonitor(safety_monitor) /\ UpdateQuiet
            /\ DailyLossBreached(safety_monitor, today)
            => ~can_trade(safety_monitor))
    /\ [][\A u \in Updaters :
            /\ Runs(u, "43") => upd'[u].line = IF DailyLossBreached(safety_monitor, today)
                                               THEN "58" ELSE "69"
            /\ Runs(u, "58") => upd'[u].line = "59" /\ ~can_trade(safety_monitor')
            /\ Runs(u, "59") => /\ upd'[u].line = "69"
                                /\ safety_monitor'.alerts
                                      = Append(safety_monitor.alerts, "DAILY_LOSS_LIMIT")]_vars

\* two losses of 30 today have halted a monitor whose first equity is 1000, after
\* a loss of 30 on the day before had not
C17_Witness ==
    /\ HasMonitor(safety_monitor)
    /\ UpdateQuiet
    /\ today = 1
    /\ safety_monitor.equity_curve = << 1000, 1000, 1000 >>
    /\ safety_monitor.trade_log = << [day |-> 0, pnl |-> -30], [day |-> 1, pnl |-> -30],
                                     [day |-> 1, pnl |-> -30] >>
    /\ safety_monitor.alerts = << "DAILY_LOSS_LIMIT" >>
    /\ ~can_trade(safety_monitor)

\* C18: a Halted monitor stays Halted under every statement of every update and
\* under a whole update, whatever the equity, the pnl and the day; it is
\* replaced by a monitor that can trade only by START or RESET_SAFETY, which
\* install a new monitor
C18_HaltedTerminal ==
    /\ [](Halted =>
            \A equity \in SafetyEquities, pnl \in SafetyPnls, day \in 0 .. MaxDay :
                ~can_trade(update(safety_monitor, equity, pnl, day)))
    /\ [][Halted => \/ Halted'
                     \/ ((StartMonitor \/ ResetMonitor) /\ safety_monitor' = NewMonitor)]_vars

\* a monitor halted by a drawdown is still Halted after a new day, a rising equity
\* and a profitable trade
C18_Witness ==
    /\ Halted
    /\ UpdateQuiet
    /\ today = 1
    /\ safety_monitor.equity_curve = << 1000, 840, 1000 >>
    /\ safety_monitor.trade_log = << [day |-> 1, pnl |-> 40] >>

\* C19: only a service that has the monitor class holds a monitor, and there
\* RESET_SAFETY installs a monitor equal to a newly constructed one, with empty
\* equity curve, trade log and alerts and can_trade() true, and then clears the
\* safety_halted flag of the status
C19_ResetClears ==
    /\ [](HasMonitor(safety_monitor) => safety_class)
    /\ [][ResetMonitor =>
            /\ safety_monitor' = TradingSafetyMonitor(MAX_DAILY_LOSS_PCT, MAX_DRAWDOWN_PCT)
            /\ safety_monitor'.equity_curve = << >>
            /\ safety_monitor'.trade_log = << >>
            /\ safety_monitor'.alerts = << >>
            /\ can_trade(safety_monitor')]_vars
    /\ [][cmd = "idle" /\ cmd' = "589" => safety_class /\ safety_monitor' = NewMonitor]_vars
    /\ [][cmd = "589" /\ cmd' # cmd => cmd' = "idle" /\ ~safety_halted']_vars

\* RESET_SAFETY has run to its end after a predict call was answered
\* SAFETY_HALT: a new monitor is in place and the flag is cleared
C19_Witness ==
    /\ response.reason = "SAFETY_HALT"
    /\ safety_monitor = NewMonitor
    /\ ~safety_halted
    /\ status = "RUNNING"
    /\ cmd = "idle"
    /\ AllIdle
    /\ cooldown_counter = 0

RECURSIVE PnlSum(_, _, _)
\* the sum of the pnl of the trades from .. to of the log
PnlSum(log, from, to) ==
    IF from > to THEN 0 ELSE log[from].pnl + PnlSum(log, from + 1, to)

\* the mean pnl of the last 20 trades of m is below half the mean of the 30
\* trades before them: sum20 / 20 < (sum30 / 30) / 2
RecentBelowHalf(m) ==
    LET n == Len(m.trade_log)
    IN  /\ n >= 50
        /\ 3 * PnlSum(m.trade_log, n - 19, n) < PnlSum(m.trade_log, n - 49, n - 20)

\* the mean pnl of the 30 trades before the last 20 is positive
PriorPositive(m) ==
    LET n == Len(m.trade_log)
    IN  n >= 50 /\ PnlSum(m.trade_log, n - 49, n - 20) > 0

\* C20 as claimed: with 50 trades or more, the performance check of every update
\* whose last 20 trades have a mean pnl below half the mean of the 30 before
\* them raises a PERFORMANCE_DEGRADATION alert, for every sign of the prior mean
C20_Original ==
    [][\A u \in Updaters :
          Runs(u, "89") /\ RecentBelowHalf(safety_monitor) => upd'[u].line = "101"]_vars

\* C20: with 50 trades or more, the performance check of an update raises a
\* PERFORMANCE_DEGRADATION alert exactly when the mean pnl of the 30 trades
\* before the last 20 is positive and the mean of the last 20 is below half of
\* it; with a prior mean of 0 or less no alert is raised; the check never
\* changes trading_enabled
C20_DegradationAlert ==
    /\ [](HasMonitor(safety_monitor) =>
            check_performance_degradation(safety_monitor).trading_enabled
              = safety_monitor.trading_enabled)
    /\ [][\A u \in Updaters :
            /\ Runs(u, "89")
                 => /\ upd'[u].line = IF PriorPositive(safety_monitor)
                                         /\ RecentBelowHalf(safety_monitor)
                                      THEN "101" ELSE "353"
                    /\ safety_monitor' = safety_monitor
            /\ Runs(u, "101")
                 => /\ upd'[u].line = "353"
                    /\ safety_monitor'.alerts
                          = Append(safety_monitor.alerts, "PERFORMANCE_DEGRADATION")
                    /\ can_trade(safety_monitor') = can_trade(safety_monitor)]_vars

\* the 50th trade has raised the alert on a prior mean of 2 and the monitor can
\* still trade
C20_Witness ==
    /\ HasMonitor(safety_monitor)
    /\ UpdateQuiet
    /\ Len(safety_monitor.trade_log) = 50
    /\ PnlSum(safety_monitor.trade_log, 1, 30) = 60
    /\ safety_monitor.alerts = << "PERFORMANCE_DEGRADATION" >>
    /\ can_trade(safety_monitor)

-----------------------------------------------------------------------------
(* the answers of /predict past the gates *)

\* C21: when the bot is RUNNING, unlocked, not halted, the model is loaded and
\* the raw ATR of the last feature row (atr_pct times the current close) is
\* below the floor 1.0, predict answers HOLD with reason LOW_ATR and that raw
\* ATR; the policy is not consulted, whatever it would have said or raised, and
\* the counter is only stepped down before the answer, never set to 12
C21_LowAtrHolds ==
    /\ [][\A t \in Threads :
            Moves(t) /\ pc[t] = "484"
              /\ local[t].r.close * local[t].r.atr_pct < MIN_ATR * 100000
              => /\ Answered(t)
                 /\ response' = [action |-> "HOLD", reason |-> "LOW_ATR",
                                 atr |-> local[t].r.close * local[t].r.atr_pct,
                                 atr_pct |-> local[t].r.atr_pct]
                 /\ cooldown_counter' = cooldown_counter]_vars
    /\ [](\A t \in Threads :
            pc[t] \in {"499", "537", "543"}
              => local[t].r.close * local[t].r.atr_pct >= MIN_ATR * 100000)
    /\ [](FirstBlock = "PASS" /\ response # NoResponse /\ response.reason = "MODEL"
            => response.atr >= MIN_ATR * 100000)

\* a LOW_ATR answer with raw ATR 0.8, given while a cooldown was running
C21_Witness ==
    /\ FirstBlock = "PASS"
    /\ response = [action |-> "HOLD", reason |-> "LOW_ATR", atr |-> 80000, atr_pct |-> 40]
    /\ cooldown_counter = COOLDOWN_BARS - 1
    /\ AllIdle

\* the reason codes of /predict
Reasons ==
    {"STOPPED", "NEWS_FILTER", "MODEL_NOT_LOADED", "SAFETY_HALT", "BAD_JSON",
     "NO_DATA", "FEAT_ERROR", "LOW_ATR", "MODEL", "ERROR"}

WellFormed(resp) ==
    /\ "action" \in DOMAIN resp
    /\ resp.action \in {"HOLD", "BUY", "SELL", "CLOSE"}
    /\ "reason" \in DOMAIN resp
    /\ resp.reason \in Reasons

\* the lines a call stands before
Lines ==
    {"idle", "382", "384", "385", "386", "390", "391", "396", "397", "441", "442",
     "477", "479", "479 store", "484", "499", "537", "543"}

\* C22: every predict call, on every path (gate, input error, feature error,
\* exception in parsing or inference, model answer) ends in a response with an
\* action among HOLD, BUY, SELL, CLOSE and a reason; an exception raised on the
\* way is answered as HOLD
C22_WellFormedResponse ==
    /\ [](response # NoResponse => WellFormed(response))
    /\ [](\A t \in Threads : pc[t] \in Lines)
    /\ [][\A t \in Threads :
            /\ Moves(t) /\ pc[t] = "397" /\ local[t].r.body = "ok"
                 /\ local[t].r.m5_data = "malformed"
                 => Answered(t) /\ response' = ExceptionAnswer
            /\ Moves(t) /\ pc[t] = "442" /\ local[t].r.feat = "ok"
                 /\ local[t].r.account = "malformed"
                 => Answered(t) /\ response' = ExceptionAnswer
            /\ Moves(t) /\ pc[t] = "499" /\ ~local[t].r.infer_ok
                 => Answered(t) /\ response' = ExceptionAnswer
            /\ Answered(t) /\ response' = ExceptionAnswer
                 => "action" \in DOMAIN response' /\ response'.action = "HOLD"]_vars

\* an exception has been answered as HOLD after the cooldown step
C22_Witness ==
    /\ FirstBlock = "PASS"
    /\ response = [action |-> "HOLD", reason |-> "ERROR", error |-> "exception"]
    /\ cooldown_counter = COOLDOWN_BARS - 1
    /\ AllIdle

\* C23 as stated: BAD_JSON for an empty body, NO_DATA for empty base bars, a
\* reason of their own for malformed bars (not the one of any other failure),
\* FEAT_ERROR for an empty feature table
C23_Original ==
    [][\A t \in Threads :
          Answered(t) /\ pc[t] \in {"397", "442", "499"} =>
              LET r == local[t].r
                  reason == response'.reason
                  malformed == pc[t] = "397" /\ r.body = "ok" /\ r.m5_data = "malformed"
              IN  /\ pc[t] = "397" /\ r.body = "empty" => reason = "BAD_JSON"
                  /\ pc[t] = "397" /\ r.body = "ok" /\ r.m5_data = "empty"
                       => reason = "NO_DATA"
                  /\ pc[t] = "442" /\ r.feat = "empty" => reason = "FEAT_ERROR"
                  /\ ~malformed => reason # Hold("ERROR").reason]_vars

\* C24 as stated: MODEL_NOT_LOADED when the model is not loaded, and for a
\* failure of the scaler or of the inference a reason that no input error gets
C24_Original ==
    [][\A t \in Threads : Answered(t) =>
          /\ pc[t] = "386" => response'.reason = "MODEL_NOT_LOADED"
          /\ pc[t] = "499"
               => response'.reason \notin { InputStop(q) : q \in RawRequests }]_vars

\* C25 as stated: every predict call that has entered the inference call
\* returns, the blocked ones cut off by a timeout
C25_Original == \A t \in Threads : (pc[t] = "499") ~> (pc[t] = "idle")

\* the news fields as one whole pass of the scheduler on feed f leaves them
SnapshotOf(f) ==
    LET r == check_news_risk(f)
    IN  [fn |-> "get_status", news_lock |-> r.locked, news_message |-> r.message,
         news_risk_multiplier |-> r.risk_mult,
         news_next_event |-> IF r.next_event = << >> THEN << >>
                             ELSE << [title |-> r.next_event[1].title,
                                      minutes |-> IntMinutes(r.next_event[1].minutes_until)] >>]

\* the news fields before the first pass
InitialSnapshot ==
    [fn |-> "get_status", news_lock |-> FALSE, news_message |-> << "Initializing..." >>,
     news_risk_multiplier |-> RiskOne, news_next_event |-> << >>]

\* C26 as stated: a status query running beside a refresh never sees a mixed
\* snapshot: a lock comes with multiplier 0, and the four news fields are those
\* of one refresh
C26_Original ==
    result # NoCall =>
        /\ (result.news_lock => result.news_risk_multiplier = 0)
        /\ \/ result = InitialSnapshot
           \/ \E f \in SchedFeeds : result = SnapshotOf(f)

-----------------------------------------------------------------------------
(* the features *)

\* the value of the bar of s with the latest timestamp <= t, 0 when there is none
LatestAtOrBefore(s, t) ==
    LET past == { i \in 1 .. Len(s) : s[i].time <= t }
    IN  IF past = {} THEN 0
        ELSE s[CHOOSE i \in past : \A j \in past : s[j].time <= s[i].time].value

\* C27 as stated: the value placed at a base timestamp t is the value computed
\* at the latest higher-timeframe bar with timestamp <= t, 0 when there is none,
\* never the value of a bar with timestamp > t
C27_Original ==
    result # NoCall /\ result.fn = "reindex" /\ ~result.raised =>
        result.value = LatestAtOrBefore(args.series, args.t)

\* the days before d that have bars
DaysBefore(bars, d) == { e \in PivotDays : e < d /\ bars[e] # << >> }

\* the last day with bars before d
PreviousDay(bars, d) ==
    CHOOSE e \in DaysBefore(bars, d) : \A f \in DaysBefore(bars, d) : f <= e

\* C28: the levels of the base bars of day D are Pivot = (H+L+C)/3,
\* R1 = 2*Pivot - L, S1 = 2*Pivot - H (here times 3) of the highest high, the
\* lowest low and the last close of the last day with bars before D, whatever the
\* bars of D itself and however many empty calendar days lie between; on the
\* first day with bars there are no levels
C28_PivotsFromPreviousDay ==
    result # NoCall /\ result.fn = "pivots" =>
        \A d \in DOMAIN result.levels :
            LET levels == result.levels[d]
            IN  IF DaysBefore(args.bars, d) = {} THEN levels.nan
                ELSE LET day == args.bars[PreviousDay(args.bars, d)]
                         H == SeqMax([k \in 1 .. Len(day) |-> day[k].high])
                         L == SeqMin([k \in 1 .. Len(day) |-> day[k].low])
                         C == day[Len(day)].close
                     IN  /\ ~levels.nan
                         /\ levels.Pivot = H + L + C
                         /\ levels.R1 = 2 * (H + L + C) - 3 * L
                         /\ levels.S1 = 2 * (H + L + C) - 3 * H
                         /\ \A other \in DayBars \ { << >> } :
                               pivots([args.bars EXCEPT ![d] = other], d) = levels

\* the bars of day 2 have the levels of day 0 (high 15, low 8, close 14), day 1
\* has no bar and day 2 has other prices
C28_Witness ==
    /\ result # NoCall
    /\ result.fn = "pivots"
    /\ args.bars[0] = << [high |-> 12, low |-> 9, close |-> 10],
                         [high |-> 15, low |-> 8, close |-> 14] >>
    /\ args.bars[1] = << >>
    /\ args.bars[2] = << [high |-> 7, low |-> 3, close |-> 4] >>
    /\ result.levels[2] = [nan |-> FALSE, Pivot |-> 37, R1 |-> 50, S1 |-> 29]

\* C29 as stated: a timeframe has its columns computed exactly when it comes
\* with at least its minimum of bars, 200 for H1, 200 for H4, 30 for D1, and the
\* gate of the request parsing agrees with the gate of the feature computation
C29_Original ==
    result # NoCall /\ result.fn = "gates" =>
        \A tf \in Timeframes :
            /\ result.computed[tf]
                 <=> args.n[tf] >= (IF tf = "d1" THEN 30 ELSE 200)
            /\ result.parsed[tf] <=> feature_gate(tf, TRUE, args.n[tf])

\* C30: for every three trends in {-1, 0, 1}, mtf_confluence is
\* (h1 + 2*h4 + 3*d1)/6 (here times 6) and lies in [-1, 1]; mtf_alignment is 1
\* exactly when the three trends are equal and not 0, else 0; so an alignment of
\* 1 comes with a confluence of 1 or -1
C30_ConfluenceAlignment ==
    result # NoCall /\ result.fn = "confluence" =>
        LET h1 == args.h1_trend
            h4 == args.h4_trend
            d1 == args.d1_trend
        IN  /\ result.mtf_confluence = h1 + 2 * h4 + 3 * d1
            /\ result.mtf_confluence \in -6 .. 6
            /\ result.mtf_alignment \in {0, 1}
            /\ result.mtf_alignment = 1 <=> (h1 = h4 /\ h4 = d1 /\ d1 # 0)
            /\ result.mtf_alignment = 1 => Abs(result.mtf_confluence) = 6

\* three falling trends: confluence -1, alignment 1
C30_Witness ==
    /\ result # NoCall
    /\ result.fn = "confluence"
    /\ args.h1_trend = -1 /\ args.h4_trend = -1 /\ args.d1_trend = -1
    /\ result.mtf_confluence = -6
    /\ result.mtf_alignment = 1

\* C31: for every (atr_ratio, adx) at most one of the four regime flags is 1 and
\* they follow the precedence volatile (atr_ratio > 2.0), quiet (atr_ratio < 0.5),
\* trending (adx > 25), ranging (adx < 20), none; the multiplier (in tenths) is
\* 1.2, 0.7, 0.5, 0.3 for trending, ranging, volatile, quiet and 1.0 with no flag;
\* an undefined atr_ratio counts as 1.0
C31_RegimeOneHot ==
    result.fn = "regime" =>
        LET ratio == IF args.atr_ratio.nan THEN 10 ELSE args.atr_ratio.tenths
            regime == IF ratio > 20 THEN "volatile"
                      ELSE IF ratio < 5 THEN "quiet"
                      ELSE IF args.adx > 25 THEN "trending"
                      ELSE IF args.adx < 20 THEN "ranging"
                      ELSE "none"
        IN  /\ result.regime_volatile = (IF regime = "volatile" THEN 1 ELSE 0)
            /\ result.regime_quiet = (IF regime = "quiet" THEN 1 ELSE 0)
            /\ result.regime_trending = (IF regime = "trending" THEN 1 ELSE 0)
            /\ result.regime_ranging = (IF regime = "ranging" THEN 1 ELSE 0)
            /\ result.regime_volatile + result.regime_quiet
                 + result.regime_trending + result.regime_ranging <= 1
            /\ result.regime_multiplier =
                 (CASE regime = "trending" -> 12
                    [] regime = "ranging" -> 7
                    [] regime = "volatile" -> 5
                    [] regime = "quiet" -> 3
                    [] OTHER -> 10)

\* a volatile row with a strong trend: the volatile flag alone, multiplier 0.5
C31_Witness ==
    /\ result.fn = "regime"
    /\ ~args.atr_ratio.nan /\ args.atr_ratio.tenths = 21
    /\ args.adx = 26
    /\ result.regime_volatile = 1
    /\ result.regime_trending = 0
    /\ result.regime_multiplier = 5

Finite(row) == row.early = "finite" /\ row.regime = "finite"

\* C32: every row of the table the pipeline returns has only finite fields: the
\* returned rows are the rows of the input whose fields are all finite, in their
\* order, a row with a NaN or an infinite field is in no returned table and is
\* never the last row handed to the scaler, and when no row is left predict
\* answers FEAT_ERROR and reads no last row
C32_FiniteRows ==
    result.fn = "pipeline" =>
        /\ \A i \in DOMAIN result.df_feat : Finite(result.df_feat[i])
        /\ result.df_feat = SelectSeq(args.rows, Finite)
        /\ result.last_row # << >> => Finite(result.last_row[1])
        /\ IF \A i \in DOMAIN args.rows : ~Finite(args.rows[i])
           THEN result.reason = "FEAT_ERROR" /\ result.last_row = << >>
           ELSE result.reason = "PASS" /\ result.last_row # << >>

\* a row with an infinite regime field and a row with an undefined early field:
\* nothing is left and the answer is FEAT_ERROR
C32_Witness ==
    /\ result.fn = "pipeline"
    /\ args.rows = << [early |-> "finite", regime |-> "inf"],
                      [early |-> "nan", regime |-> "finite"] >>
    /\ result.df_feat = << >>
    /\ result.reason = "FEAT_ERROR"

\* C33 as stated: the Fibonacci levels used at the i-th bar of a day come from
\* the high and the low of the day up to that bar only, so they are the levels
\* of the input without the later bars of the day
C33_Original ==
    result.fn = "fib" =>
        /\ result.fib_382 = fib_levels(SubSeq(args.day, 1, args.i), args.i).fib_382
        /\ result.fib_618 = fib_levels(SubSeq(args.day, 1, args.i), args.i).fib_618

-----------------------------------------------------------------------------
(* the status flags and the commands *)

\* C35 as stated: in every reachable state the safety_halted flag of the status
\* is true exactly when a monitor exists and its can_trade() is false
C35_Original == safety_halted <=> Halted

\* C36 as stated: an answer with reason MODEL never carries a
\* news_risk_multiplier of 0, and no BUY, SELL or CLOSE is answered while the
\* news is locked at the time the answer is built, also with a refresh between
\* the lock check of the call and its read of the multiplier
C36_Original ==
    [][\A t \in Threads :
          Answered(t) /\ response'.reason = "MODEL" =>
              /\ response'.news_risk_multiplier # 0
              /\ response'.action # "HOLD" => ~news_lock]_vars

\* C37: in a service that has the monitor class, START installs a newly
\* constructed monitor, able to trade, with empty equity curve, trade log and
\* alerts, clears safety_halted and sets the run-status to RUNNING, whatever the
\* state before, so that no halt is left after STOP followed by START; STOP sets
\* the run-status to STOPPED and leaves the monitor, the safety_halted flag and
\* the cooldown counter as they are
C37_StartStopFrame ==
    /\ [][StartMonitor =>
            /\ safety_monitor' = TradingSafetyMonitor(MAX_DAILY_LOSS_PCT, MAX_DRAWDOWN_PCT)
            /\ safety_monitor'.equity_curve = << >>
            /\ safety_monitor'.trade_log = << >>
            /\ safety_monitor'.alerts = << >>
            /\ can_trade(safety_monitor')
            /\ cooldown_counter' = cooldown_counter]_vars
    /\ [][cmd = "idle" /\ cmd' \in {"564", "565", "568"}
            => cmd' = "564" /\ safety_class /\ safety_monitor' = NewMonitor]_vars
    /\ [][cmd = "564" /\ cmd' # cmd => cmd' = "565" /\ safety_enabled']_vars
    /\ [][cmd = "565" /\ cmd' # cmd => cmd' = "568" /\ ~safety_halted']_vars
    /\ [][cmd = "568" /\ cmd' # cmd
            => /\ cmd' = "idle"
               /\ status' = "RUNNING"
               /\ cooldown_counter' = cooldown_counter]_vars
    /\ [][status # "RUNNING" /\ status' = "RUNNING"
            => IF safety_class THEN cmd = "568" ELSE cmd = "idle"]_vars
    /\ [][Stop =>
            /\ status' = "STOPPED"
            /\ safety_monitor' = safety_monitor
            /\ safety_halted' = safety_halted
            /\ cooldown_counter' = cooldown_counter]_vars

\* a halt answered SAFETY_HALT during a cooldown, then STOP and START up to its
\* last statement: a new monitor is in place, the flag is cleared and the
\* cooldown goes on
C37_Witness ==
    /\ cmd = "568"
    /\ status = "STOPPED"
    /\ response.reason = "SAFETY_HALT"
    /\ safety_monitor = NewMonitor
    /\ ~safety_halted
    /\ cooldown_counter = 1
    /\ AllIdle

\* C38: an update_status call is passed to the monitor only when there is one
\* and the equity is > 0, and then appends exactly one point, the equity, to the
\* equity curve, and exactly one trade, the last_trade_pnl, to the trade log
\* when last_trade_pnl is not 0, none otherwise, also on a halted monitor; with
\* equity <= 0 (or no body) or without a monitor the monitor is left as it is;
\* the same non-zero last_trade_pnl sent in two updates is logged twice
C38_UpdateAppends ==
    /\ [](\A m \in {safety_monitor, NoMonitor} :
          \A equity \in SafetyEquities \cup {0, -1}, pnl \in SafetyPnls :
             LET after == monitor_after_update_status(m, equity, pnl, today)
                 twice == monitor_after_update_status(after, equity, pnl, today)
             IN  IF HasMonitor(m) /\ equity > 0
                 THEN /\ after.equity_curve = Append(m.equity_curve, equity)
                      /\ after.trade_log =
                            (IF pnl # 0 THEN Append(m.trade_log, [day |-> today, pnl |-> pnl])
                             ELSE m.trade_log)
                      /\ Len(twice.equity_curve) = Len(m.equity_curve) + 2
                      /\ Len(twice.trade_log)
                            = Len(m.trade_log) + (IF pnl # 0 THEN 2 ELSE 0)
                 ELSE after = m)
    /\ [][\A u \in Updaters :
            /\ upd[u].line = "idle" /\ upd'[u].line # "idle"
                 => /\ HasMonitor(safety_monitor)
                    /\ upd'[u].line = "25"
                    /\ upd'[u].equity > 0
                    /\ safety_monitor' = safety_monitor
            /\ Runs(u, "25")
                 => /\ upd'[u].line = "30"
                    /\ safety_monitor'.equity_curve
                          = Append(safety_monitor.equity_curve, upd[u].equity)
                    /\ safety_monitor'.trade_log = safety_monitor.trade_log
            /\ Runs(u, "30")
                 => /\ upd'[u].line = "43"
                    /\ safety_monitor'.equity_curve = safety_monitor.equity_curve
                    /\ safety_monitor'.trade_log
                          = IF upd[u].pnl # 0
                            THEN Append(safety_monitor.trade_log,
                                        [day |-> today, pnl |-> upd[u].pnl])
                            ELSE safety_monitor.trade_log]_vars
    /\ [][safety_monitor' # safety_monitor
            => \/ (StartMonitor \/ ResetMonitor) /\ safety_monitor' = NewMonitor
               \/ \E u \in Updaters, line \in {"25", "30", "58", "59", "78", "79", "101"} :
                     Runs(u, line)]_vars

\* three updates, two of them with last_trade_pnl -30: three points on the
\* curve, the loss logged twice, the monitor halted by the second
C38_Witness ==
    /\ HasMonitor(safety_monitor)
    /\ UpdateQuiet
    /\ Len(safety_monitor.equity_curve) = 3
    /\ safety_monitor.trade_log = << [day |-> 0, pnl |-> -30], [day |-> 0, pnl |-> -30] >>
    /\ ~can_trade(safety_monitor)

-----------------------------------------------------------------------------
(* the notifications of the news scheduler *)

\* the NEWS LOCK and NEWS CLEAR notifications among those of notes
LockClears(notes) ==
    SelectSeq(notes, LAMBDA n : n = "NEWS LOCK" \/ n = "NEWS CLEAR")

\* C39: over any sequence of refreshes the NEWS LOCK and NEWS CLEAR
\* notifications alternate, starting with NEWS LOCK; a pass sends NEWS LOCK
\* exactly when it finds the news locked and the remembered state is unlocked,
\* NEWS CLEAR exactly when it finds it unlocked and the remembered state is
\* locked; a pass that raises sends nothing and leaves the remembered state and
\* the lock as they are
C39_AlertsAlternate ==
    /\ [](LET lc == LockClears(sent)
          IN  /\ \A i \in DOMAIN lc :
                    lc[i] = (IF i % 2 = 1 THEN "NEWS LOCK" ELSE "NEWS CLEAR")
              /\ sched.last_lock_state <=> Len(lc) % 2 = 1
              /\ SchedIdle => sched.last_lock_state = news_lock)
    /\ [][sched.line = 296 /\ sched'.line # 296 =>
            LET new == SubSeq(sent', Len(sent) + 1, Len(sent'))
            IN  /\ Len(new) <= 1
                /\ sched.locked = news_lock
                /\ new = << "NEWS LOCK" >> <=> (~sched.last_lock_state /\ news_lock)
                /\ new = << "NEWS CLEAR" >> <=> (sched.last_lock_state /\ ~news_lock)
                /\ sched'.last_lock_state = news_lock]_vars
    /\ [][sched.line # 296 => sent' = sent]_vars
    /\ [][SchedulerRaise =>
            /\ sent' = sent
            /\ sched' = sched
            /\ news_lock' = news_lock]_vars

\* a lock, its clear and a second lock have been notified, with a pass that
\* raised after the last one
C39_Witness ==
    /\ sent = << "NEWS LOCK", "NEWS CLEAR", "NEWS LOCK" >>
    /\ news_lock
    /\ SchedIdle
    /\ news_message = << "Error", "exception" >>

====
